---- MODULE Spec2Model ----
(***************************************************************************)
(* Enterprise Certificate Proxy: one client Key, the signer subprocess it  *)
(* spawns, and the net/rpc session between them over the two pipes.        *)
(*                                                                         *)
(* Client side  : Cred, Key.Sign, Key.Close, Transport.Close               *)
(* Signer side  : main (argument check, config, key lookup, registration,  *)
(*                watchdog goroutine, ServeConn), the RPC handlers,        *)
(*                Connection.Close                                         *)
(* Environment  : the config file, the PKCS#11 token, the operating        *)
(*                system (close/kill/wait results, death of the parent).   *)
(***************************************************************************)
EXTENDS Integers, Sequences, FiniteSets, TLC

-----------------------------------------------------------------------------
(* Bounds of the model *)

\* goroutines of the client process that call Sign on the Key concurrently
NumUsers == 2

\* RPC calls issued on one Key (two startup calls and the Sign calls)
MaxSeq == 4

\* calls of Key.Close made by the owner of the Key
MaxCloseCalls == 2

\* len(os.Args) of a signer that is started by hand: up to this many
MaxArgc == 3

\* length in bytes of the longest plaintext handed to Encrypt
MaxPlainLen == 2

\* size in bytes of the largest buffer a caller of the shared library
\* allocates
MaxHolderLen == 6

\* certificates the keychain search returns
MaxKeychainCerts == 3

\* connections to the proxy server that are active at one time
MaxConns == 2

\* calls a program makes to the functions that obtain a Key
MaxKeyUses == 3

\* requests the signer's RPC server has read and not yet answered
MaxRequests == 2

\* calls of the logging functions of package utils a program makes
MaxLogCalls == 2

-----------------------------------------------------------------------------
(* Program constants *)

\* os.Getppid() of an orphan that was re-parented to init
InitPid == 1

\* time.Sleep(time.Second) between two checks of the watchdog, in seconds
WatchdogInterval == 1

\* len(os.Args) the signer requires: program name and the config path
RequiredArgs == 2

signAPI == "EnterpriseCertSigner.Sign"
certificateChainAPI == "EnterpriseCertSigner.CertificateChain"
publicKeyAPI == "EnterpriseCertSigner.Public"

\* http.StatusBadRequest, http.StatusForbidden, http.StatusBadGateway
StatusBadRequest == 400
StatusForbidden == 403
StatusBadGateway == 502

\* getPaddingSize: bytes the keychain Key reserves for the padding of each
\* scheme
pssPaddingBytes == 20
oaepPaddingBytes == 130
pkcsPaddingBytes == 11

\* SecKeyGetBlockSize of the key in the keychain, in bytes
KeyBlockSize == 132

\* defaultShutdownTimeout, in seconds
defaultShutdownTimeout == 5

-----------------------------------------------------------------------------
(* Values *)

Users == 1..NumUsers
CredCaller == 0
Callers == {CredCaller} \cup Users

\* pid of the client process, any pid other than init's
ClientPid == InitPid + 1

\* message digests handed to Sign, as byte strings
Digests == {<<7>>, <<7, 9>>}

\* hash identifiers callers sign with
Hashes == {"SHA256", "SHA384"}

\* rsa.PSSOptions.SaltLength: PSSSaltLengthAuto or PSSSaltLengthEqualsHash
PSSSaltLengths == {"auto", "equalsHash"}

\* crypto.SignerOpts values by concrete type: the nil interface, a crypto.Hash,
\* a *rsa.PSSOptions
NilOpts == [type |-> "nil"]
HashOpts(h) == [type |-> "crypto.Hash", hash |-> h]
PSSOpts(s, h) == [type |-> "*rsa.PSSOptions", salt |-> s, hash |-> h]

\* crypto.SignerOpts values a caller of Key.Sign passes in a session: absent,
\* or a hash identifier
OptsValues == {NilOpts, HashOpts("SHA256")}

\* every hash identifier and every PSS options value a caller can pass
SignerOptsValues ==
    {HashOpts(h) : h \in Hashes} \cup
    {PSSOpts(s, h) : s \in PSSSaltLengths, h \in Hashes}

\* byte values of a plaintext; 0 is the NUL byte
PlainBytes == {0, 7, 9}

\* the providers that encrypt and decrypt: the PKCS#11 Key behind the linux
\* signer and the keychain Key
CryptProviders == {"pkcs11", "keychain"}

\* the algorithm tables of the keychain, in the order they are tried; none
\* when SecKeyIsAlgorithmSupported reports no table for the operation
AlgorithmTables == <<"PSS", "OAEP", "PKCS1v15">>
TableChoices == {AlgorithmTables[i] : i \in DOMAIN AlgorithmTables} \cup {"none"}

\* no SecKeyAlgorithm
unknownSecKeyAlgorithm == <<>>

\* what client.Cred gives the shared library: no Key, or a Key with a chain
\* of DER certificates and a public key that is RSA, ECDSA or of another type
LibChains == {<< <<48>> >>, << <<48>>, <<49>> >>}
LibKeyTypes == {"rsa", "ecdsa", "other"}
LibCreds ==
    {[ok |-> FALSE, chain |-> <<>>, keyType |-> "other"]} \cup
    {[ok |-> TRUE, chain |-> ch, keyType |-> t] : ch \in LibChains, t \in LibKeyTypes}

\* a byte of a caller's buffer that nothing was written to
Untouched == 255

\* host names, as their dot-separated labels; the empty string has none
EmptyHost == <<>>
AllowedSuffix == <<"mtls", "googleapis", "com">>
TargetHosts ==
    {<<"storage">> \o AllowedSuffix,
     <<"pubsub-1">> \o AllowedSuffix,
     <<"Storage">> \o AllowedSuffix,
     <<"evil/">> \o AllowedSuffix,
     <<"">> \o AllowedSuffix,
     <<"a", "b">> \o AllowedSuffix,
     <<"storage">> \o AllowedSuffix \o <<"evil", "com">>,
     <<"example", "com">>}

\* labels made only of the characters a-z, 0-9 and -
LowerAlnumLabels == {"storage", "pubsub-1", "a", "b", "example", "evil", "com"}

\* the values of the X-Goog-EcpProxy-Target-Host header of a request: none,
\* one (possibly empty), or two
TargetHostHeaders ==
    {<<>>} \cup {<<h>> : h \in TargetHosts \cup {EmptyHost}}
           \cup {<<<<"storage">> \o AllowedSuffix, <<"example", "com">> >>,
                 << <<"example", "com">>, <<"storage">> \o AllowedSuffix>>}

\* requests a client of the proxy sends
ProxyRequests ==
    [method : {"GET", "POST"}, targetHost : TargetHostHeaders, scheme : {"http"},
     urlHost : {EmptyHost}, host : {<<"localhost">>},
     path : {"/", "/storage/v1/b"}, query : {"", "alt=json"}]

\* what the transport does with a request: the backend answers with a
\* status, or the round trip fails
TransportOutcomes == {"200", "500", "error"}

\* the X-Goog-EcpProxy-Error header of a backend's response: absent, or
\* set by the backend
BackendErrorHeaders == {"", "true"}

\* certificates of a keychain: the raw subject and issuer, the public key,
\* the key whose signature the certificate carries, and the expiry. Two
\* certificates of the intermediate CA with one key and different expiries,
\* one with another key that expires last, a self-signed root, a root
\* certificate cross-signed by the intermediate CA, and a leaf
KeychainCert(subject, issuer, key, signedWith, notAfter) ==
    [RawSubject |-> subject, RawIssuer |-> issuer, PublicKey |-> key,
     signedWith |-> signedWith, NotAfter |-> notAfter]
KeychainCerts ==
    {KeychainCert("leaf", "ca", "kLeaf", "kCA", 1),
     KeychainCert("ca", "root", "kCA", "kRoot", 1),
     KeychainCert("ca", "root", "kCA", "kRoot", 2),
     KeychainCert("ca", "root", "kOther", "kRoot", 3),
     KeychainCert("root", "root", "kRoot", "kRoot", 2),
     KeychainCert("root", "ca", "kRoot", "kCA", 2)}

\* a nil *x509.Certificate
NilCert == KeychainCert("", "", "", "", 0)

\* who calls Close on a keychain Key: two goroutines that hold the Key, and
\* the finalizer newKey set
KeyHolders == {"g1", "g2"}
Finalizer == "finalizer"
KeychainClosers == KeyHolders \cup {Finalizer}
NoCloser == "none"

\* what runServer returns
ErrStartFailed == "failed to start proxy server"
ErrShutdownFailed == "server shutdown failed: context deadline exceeded"

\* how a function that holds a Key ends: it returns, a panic unwinds it, or
\* log.Fatalf ends the process with os.Exit
Endings == {"return", "panic", "os.Exit"}

\* the paths through the functions that obtain a Key from Cred, each with
\* the way it ends
SignPaths ==
    {[path |-> "unsupported key type", ends |-> "return"],
     [path |-> "failed to sign hash", ends |-> "return"],
     [path |-> "sigHolder too small", ends |-> "return"],
     [path |-> "unsafe.Slice of nil sigHolder", ends |-> "panic"],
     [path |-> "signature copied", ends |-> "return"]}
GetKeyTypePaths ==
    {[path |-> "EC", ends |-> "return"],
     [path |-> "RSA", ends |-> "return"],
     [path |-> "unknown", ends |-> "return"]}
RunPaths ==
    {[path |-> "failed to create ECP transport", ends |-> "return"],
     [path |-> "failed to start proxy server", ends |-> "return"],
     [path |-> "server shutdown failed", ends |-> "return"],
     [path |-> "server shut down gracefully", ends |-> "return"]}
RunProxyWrapperPaths ==
    {[path |-> "Failed to start proxy server", ends |-> "os.Exit"],
     [path |-> "Proxy server shut down gracefully", ends |-> "return"]}

\* the requests on a connection, and the methods a request names
RequestIds == 1..MaxRequests
HandlerMethods == {"Encrypt", "Decrypt", "Sign"}

\* messages a program logs
LogMessages == {"failed to sign hash", "the key is rsa key"}

\* the signer executables: the linux, windows and darwin signers, and the
\* windows signer whose Sign handler falls back to args.Hash
SignerBuilds == {"linux", "windows", "darwin", "windowsCompat"}

\* public keys: 1 and 2 are of algorithms every x509 build knows, 3 is of an
\* algorithm the signer's x509 marshals but the client's x509 cannot parse
Keys == {1, 2, 3}
NoKey == 0

\* config paths: none, the one a caller passes to Cred, the one the
\* environment variable GOOGLE_API_CERTIFICATE_CONFIG holds, and the default
NoPath == ""
ExplicitPath == "/explicit/certificate_config.json"
EnvPath == "/env/certificate_config.json"
DefaultConfigFilePath == "~/.config/gcloud/certificate_config.json"

\* a config file as Cred finds it: absent, unreadable, not JSON, without a
\* signer path, naming a signer under the home directory, naming a binary
\* that cannot be started, naming the signer
Configs == {"missing", "unreadable", "malformed", "nopath", "homepath",
            "badbinary", "ok"}

\* a PKCS#11 token: the certificate objects and the public-key objects found
\* under the configured label, each object named by the key it carries
Tokens ==
    { [certs |-> <<>>, pubKeys |-> <<1>>],
      [certs |-> <<1, 2>>, pubKeys |-> <<1, 2>>],
      [certs |-> <<1>>, pubKeys |-> <<2>>],
      [certs |-> <<3>>, pubKeys |-> <<3>>] }

\* results of closing one end of a pipe
ReadCloseResults == {"nil", "read close failed"}
WriteCloseResults == {"nil", "write close failed"}

ErrShutdown == "connection is shut down"
ErrUnexpectedEOF == "unexpected EOF"
ErrProcessDone == "os: process already finished"
ErrSignRejected == "signer rejected digest"
ErrConfigUnavailable == "Config is unavailable"
ErrPermission == "open: permission denied"
ErrJSONSyntax == "json: syntax error"
ErrGobNotRegistered == "gob: type not registered for interface"
ErrCrypt == "provider: operation failed"
ErrUnknownRSA == "unknown RSA argument"

-----------------------------------------------------------------------------
(* Pure functions *)

\* opts.HashFunc(): crypto.Hash returns itself, *rsa.PSSOptions its Hash
\* field; on an absent (nil interface) opts the method call panics
HashFunc(opts) ==
    IF opts = NilOpts THEN "panic" ELSE opts.hash

\* a raw X509 certificate: DER sequence tag, then the subject public key
CertificateOf(k) == <<48, k>>

\* the public key embedded in a raw certificate
CertPublicKey(cert) == cert[2]

\* x509.MarshalPKIXPublicKey: DER sequence tag, algorithm, key material
MarshalPKIXPublicKey(k) == <<48, k, k>>

\* x509.ParsePKIXPublicKey of the client's build: fails on input that is not
\* a DER sequence and on an algorithm it does not know
ParsePKIXPublicKey(bytes) ==
    IF Len(bytes) = 3 /\ bytes[1] = 48 /\ bytes[2] \in {1, 2}
    THEN [err |-> "nil", key |-> bytes[3]]
    ELSE [err |-> "x509: failed to parse public key", key |-> NoKey]

\* a Close that returns on the first error and leaves the write end open
TransportCloseStopsEarly(rerr, werr) ==
    [readCloseCalled |-> TRUE,
     writeCloseCalled |-> (rerr = "nil"),
     err |-> IF rerr # "nil" THEN rerr ELSE werr]

\* Transport.Close / Connection.Close: both ends are closed, the read-side
\* error wins
TransportClose(rerr, werr) ==
    [readCloseCalled |-> TRUE,
     writeCloseCalled |-> TRUE,
     err |-> IF rerr # "nil" THEN rerr ELSE werr]

\* the effective config path: the argument of Cred if not empty, else the
\* environment override if set, else the default location
ResolveConfigPath(arg, env) ==
    IF arg # NoPath THEN arg
    ELSE IF env # NoPath THEN env
    ELSE DefaultConfigFilePath

\* a LoadSignerBinaryPath without the sentinel: the error of os.Open and a
\* plain error for the empty path
LoadSignerBinaryPathNoSentinel(cfg, homeOk) ==
    CASE cfg = "missing" -> [path |-> "", err |-> "open: no such file or directory"]
      [] cfg = "unreadable" -> [path |-> "", err |-> ErrPermission]
      [] cfg = "malformed" -> [path |-> "", err |-> ErrJSONSyntax]
      [] cfg = "nopath" -> [path |-> "", err |-> "Signer binary path is missing."]
      [] cfg = "homepath" ->
            IF homeOk THEN [path |-> "signer", err |-> "nil"]
            ELSE [path |-> "", err |-> ErrConfigUnavailable]
      [] cfg = "badbinary" -> [path |-> "nosuchbinary", err |-> "nil"]
      [] OTHER -> [path |-> "signer", err |-> "nil"]

\* a LoadSignerBinaryPath that reports every config it cannot use as
\* unavailable
LoadSignerBinaryPathCoerces(cfg, homeOk) ==
    CASE cfg = "missing" -> [path |-> "", err |-> ErrConfigUnavailable]
      [] cfg = "unreadable" -> [path |-> "", err |-> ErrConfigUnavailable]
      [] cfg = "malformed" -> [path |-> "", err |-> ErrConfigUnavailable]
      [] cfg = "nopath" -> [path |-> "", err |-> ErrConfigUnavailable]
      [] cfg = "homepath" ->
            IF homeOk THEN [path |-> "signer", err |-> "nil"]
            ELSE [path |-> "", err |-> ErrConfigUnavailable]
      [] cfg = "badbinary" -> [path |-> "nosuchbinary", err |-> "nil"]
      [] OTHER -> [path |-> "signer", err |-> "nil"]

\* LoadSignerBinaryPath on the config file Cred was pointed at. homeOk: the
\* home directory of the user can be determined
LoadSignerBinaryPath(cfg, homeOk) ==
    CASE cfg = "missing" -> [path |-> "", err |-> ErrConfigUnavailable]
      [] cfg = "unreadable" -> [path |-> "", err |-> ErrPermission]
      [] cfg = "malformed" -> [path |-> "", err |-> ErrJSONSyntax]
      [] cfg = "nopath" -> [path |-> "", err |-> ErrConfigUnavailable]
      [] cfg = "homepath" ->
            IF homeOk THEN [path |-> "signer", err |-> "nil"]
            ELSE [path |-> "", err |-> ErrConfigUnavailable]
      [] cfg = "badbinary" -> [path |-> "nosuchbinary", err |-> "nil"]
      [] OTHER -> [path |-> "signer", err |-> "nil"]

\* cmd.Start(): fails when the binary cannot be executed
CmdStart(path) ==
    IF path = "signer" THEN "nil" ELSE "exec: file not found"

\* byte strings of up to n bytes
RECURSIVE BytesUpTo(_)
BytesUpTo(n) ==
    IF n = 0 THEN {<<>>}
    ELSE LET shorter == BytesUpTo(n - 1)
         IN  shorter \cup {Append(p, b) : p \in shorter, b \in PlainBytes}

\* hash functions the keychain maps to an algorithm
KeychainHashes == {"SHA256", "SHA384", "SHA512"}

\* getRSAEncryptAlgorithm and getRSADecryptAlgorithm: algorithms[k.hash] of
\* the first of the PSS, OAEP and PKCS1v15 tables whose SHA256 entry
\* SecKeyIsAlgorithmSupported reports for the operation, an error when it
\* reports none; a hash outside the table yields no algorithm and no error
getRSAAlgorithm(table, hash) ==
    IF table = "none"
    THEN [err |-> ErrUnknownRSA, alg |-> unknownSecKeyAlgorithm]
    ELSE IF hash \in KeychainHashes
         THEN [err |-> "nil", alg |-> <<table, hash>>]
    ELSE [err |-> "nil", alg |-> unknownSecKeyAlgorithm]

\* getPaddingSize: the padding bytes of the encryption algorithm
getPaddingSize(algorithm) ==
    IF algorithm = unknownSecKeyAlgorithm THEN 0
    ELSE IF algorithm[1] = "PSS" THEN pssPaddingBytes
    ELSE IF algorithm[1] = "OAEP" THEN oaepPaddingBytes
    ELSE pkcsPaddingBytes

\* checkDataSize: the plaintext must be shorter than the block size of the
\* key minus the padding
checkDataSize(plaintext, algorithm) ==
    IF Len(plaintext) >= KeyBlockSize - getPaddingSize(algorithm)
    THEN "plaintext is too long" ELSE "nil"

\* SecKeyCreateEncryptedData and the encryption of the token: the
\* ciphertext of plaintext under an encryption algorithm; a signature
\* algorithm or no algorithm is an error
CreateEncryptedData(algorithm, plaintext) ==
    IF algorithm = unknownSecKeyAlgorithm
    THEN [err |-> ErrCrypt, data |-> <<>>]
    ELSE IF algorithm[1] # "OAEP"
         THEN [err |-> ErrCrypt, data |-> <<>>]
    ELSE [err |-> "nil", data |-> <<algorithm, plaintext>>]

\* SecKeyCreateDecryptedData and the decryption of the token: the plaintext
\* of a ciphertext made under the same algorithm, an error otherwise
CreateDecryptedData(algorithm, ciphertext) ==
    IF algorithm = unknownSecKeyAlgorithm \/ ciphertext = <<>>
    THEN [err |-> ErrCrypt, data |-> <<>>]
    ELSE IF ciphertext[1] # algorithm
         THEN [err |-> ErrCrypt, data |-> <<>>]
    ELSE [err |-> "nil", data |-> ciphertext[2]]

\* keychain Key.Encrypt(plaintext, opts) with opts a crypto.Hash: k.hash =
\* hash, then algorithm, size check and encryption
KeychainEncrypt(plaintext, hash, table) ==
    LET a == getRSAAlgorithm(table, hash)
    IN  IF a.err # "nil" THEN [err |-> a.err, data |-> <<>>]
        ELSE IF checkDataSize(plaintext, a.alg) # "nil"
             THEN [err |-> checkDataSize(plaintext, a.alg), data |-> <<>>]
        ELSE CreateEncryptedData(a.alg, plaintext)

\* bytes.Trim(b, "\x00"): b without its leading and trailing NUL bytes
RECURSIVE TrimNUL(_)
TrimNUL(b) ==
    IF b = <<>> THEN b
    ELSE IF Head(b) = 0 THEN TrimNUL(Tail(b))
    ELSE IF b[Len(b)] = 0 THEN TrimNUL(SubSeq(b, 1, Len(b) - 1))
    ELSE b

\* keychain Key.Decrypt returning the plaintext without the NUL bytes at its
\* ends
KeychainDecryptTrimsNUL(ciphertext, hash, table) ==
    LET a == getRSAAlgorithm(table, hash)
        r == CreateDecryptedData(a.alg, ciphertext)
    IN  IF a.err # "nil" THEN [err |-> a.err, data |-> <<>>]
        ELSE [err |-> r.err, data |-> TrimNUL(r.data)]

\* keychain Key.Decrypt(ciphertext, opts) with opts a *rsa.OAEPOptions:
\* k.hash = opts.Hash, then algorithm and decryption
KeychainDecrypt(ciphertext, hash, table) ==
    LET a == getRSAAlgorithm(table, hash)
    IN  IF a.err # "nil" THEN [err |-> a.err, data |-> <<>>]
        ELSE CreateDecryptedData(a.alg, ciphertext)

\* pkcs11 Key.Encrypt(plaintext) of a Key made by WithHash(hash): RSA-OAEP
\* with that hash
Pkcs11Encrypt(plaintext, hash) ==
    CreateEncryptedData(<<"OAEP", hash>>, plaintext)

\* pkcs11 Key.Decrypt(ciphertext) of a Key made by WithHash(hash)
Pkcs11Decrypt(ciphertext, hash) ==
    CreateDecryptedData(<<"OAEP", hash>>, ciphertext)

\* pem.EncodeToMemory of a CERTIFICATE block: the armour line, the encoded
\* bytes and the closing line
PemEncode(der) == <<45>> \o der \o <<10>>

\* getCertPem(configFilePath): nil when Cred fails, else the PEM blocks of the
\* certificates of the chain, one after the other
RECURSIVE ChainPem(_)
ChainPem(certChain) ==
    IF certChain = <<>> THEN <<>>
    ELSE PemEncode(Head(certChain)) \o ChainPem(Tail(certChain))

getCertPem(cred) == IF cred.ok THEN ChainPem(cred.chain) ELSE <<>>

\* a caller-allocated buffer of n bytes before the library is called
FreshBuffer(n) == [i \in 1..n |-> Untouched]

\* copy(dst, src): the first min(len(dst), len(src)) bytes of src overwrite
\* those of dst
Copy(dst, src) ==
    [i \in 1..Len(dst) |-> IF i <= Len(src) THEN src[i] ELSE dst[i]]

\* GetCertPem that returns the number of bytes it copied
GetCertPemReturnsCopied(cred, holderGiven, holderLen) ==
    LET pemBytes == getCertPem(cred)
    IN  IF holderGiven
        THEN [ret |-> IF holderLen < Len(pemBytes) THEN holderLen
                      ELSE Len(pemBytes),
              buf |-> Copy(FreshBuffer(holderLen), pemBytes), panic |-> FALSE]
        ELSE [ret |-> 0, buf |-> <<>>, panic |-> FALSE]

\* GetCertPem(configFilePath, certHolder, certHolderLen): the value returned,
\* the caller's buffer afterwards and whether the call panicked
GetCertPem(cred, holderGiven, holderLen) ==
    LET pemBytes == getCertPem(cred)
    IN  IF holderGiven
        THEN [ret |-> Len(pemBytes),
              buf |-> Copy(FreshBuffer(holderLen), pemBytes), panic |-> FALSE]
        ELSE [ret |-> Len(pemBytes), buf |-> <<>>, panic |-> FALSE]

\* the signature key.Sign returns to the shared library for a digest
LibSignature(cred, digest) ==
    <<IF cred.keyType = "rsa" THEN 1 ELSE 2>> \o digest

\* Sign(configFilePath, digest, digestLen, sigHolder, sigHolderLen): 0 when
\* Cred fails, the key is neither RSA nor ECDSA, signing fails or the buffer
\* is shorter than the signature; otherwise the signature is copied into
\* the buffer and its length returned. unsafe.Slice of a nil pointer with
\* a length other than 0 panics
Sign(cred, digest, signOk, holderGiven, holderLen) ==
    LET signature == LibSignature(cred, digest)
        untouched == IF holderGiven THEN FreshBuffer(holderLen) ELSE <<>>
    IN  IF ~cred.ok \/ cred.keyType = "other" \/ ~signOk
             \/ holderLen < Len(signature)
        THEN [ret |-> 0, buf |-> untouched, panic |-> FALSE]
        ELSE IF ~holderGiven
             THEN [ret |-> 0, buf |-> <<>>, panic |-> TRUE]
        ELSE [ret |-> Len(signature), buf |-> Copy(untouched, signature),
              panic |-> FALSE]

\* the SignForPython that does its own signing: 0 when Cred fails, the key
\* is neither RSA nor ECDSA or signing fails; otherwise the signature is
\* stored byte by byte into unsafe.Slice(sigHolder, sigHolderLen) with no
\* comparison of the lengths, so that the store at index sigHolderLen
\* panics after sigHolderLen bytes were written
SignForPython(cred, digest, signOk, holderGiven, holderLen) ==
    LET signature == LibSignature(cred, digest)
        untouched == IF holderGiven THEN FreshBuffer(holderLen) ELSE <<>>
    IN  IF ~cred.ok \/ cred.keyType = "other" \/ ~signOk
        THEN [ret |-> 0, buf |-> untouched, panic |-> FALSE]
        ELSE IF ~holderGiven
             THEN [ret |-> 0, buf |-> <<>>, panic |-> TRUE]
        ELSE IF holderLen < Len(signature)
             THEN [ret |-> 0, buf |-> Copy(untouched, signature), panic |-> TRUE]
        ELSE [ret |-> Len(signature), buf |-> Copy(untouched, signature),
              panic |-> FALSE]

\* http.Header.Get: the first value of the header, "" when there is none
HeaderGet(values) == IF values = <<>> THEN EmptyHost ELSE values[1]

\* isAllowedHost: the host matches ^[a-z0-9-]+\.mtls\.googleapis\.com$, one
\* non-empty label of lower-case letters, digits and hyphens followed by
\* the three labels mtls, googleapis, com
isAllowedHost(host) ==
    /\ Len(host) = 1 + Len(AllowedSuffix)
    /\ host[1] \in LowerAlnumLabels
    /\ SubSeq(host, 2, Len(host)) = AllowedSuffix

\* writeError(w, originalError, errorMsg, statusCode): the JSON content
\* type, the X-Goog-EcpProxy-Error header, the status and the JSON body
writeError(originalError, errorMsg, statusCode) ==
    [status |-> statusCode, contentType |-> "application/json",
     ecpError |-> "true",
     body |-> [code |-> statusCode, message |-> errorMsg, error |-> originalError]]

\* the Director of the ReverseProxy: the outgoing request has scheme https,
\* the target host as URL host and as Host, and no target host header
Director(req) ==
    [req EXCEPT !.targetHost = <<>>, !.scheme = "https",
                !.urlHost = HeaderGet(req.targetHost),
                !.host = HeaderGet(req.targetHost)]

\* the outgoing request of ECPProxy.ServeHTTP: a clone of the request, its
\* headers included, with the target host as Host and as URL host, scheme
\* https, and the path and query of the request
CloneOutReq(r) ==
    [r EXCEPT !.host = HeaderGet(r.targetHost), !.scheme = "https",
              !.urlHost = HeaderGet(r.targetHost),
              !.path = r.path, !.query = r.query]

\* the status of the response the backend gives
BackendStatus(outcome) == IF outcome = "200" THEN 200 ELSE 500

\* the response the backend gives: its status, its headers and its body
BackendResponse(outcome, ecpError) ==
    [status |-> BackendStatus(outcome), contentType |-> "backend",
     ecpError |-> ecpError,
     body |-> [code |-> BackendStatus(outcome), message |-> "backend",
               error |-> ""]]

\* the ReverseProxy relays a response of the backend: every header of the
\* response is copied to the writer, then the status and the body
RelayResponse(res) == res

\* gob.Register(value): records the concrete type of value under its type
\* name; registering a second value of a type already registered adds nothing
GobRegister(values) == {v.type : v \in values}

\* init() of the client without the registration of *rsa.PSSOptions
ClientRegisteredHashOnly == GobRegister({HashOpts("SHA256")})

\* init() of the client: gob.Register(crypto.SHA256) and
\* gob.Register(&rsa.PSSOptions{})
ClientRegistered ==
    GobRegister({HashOpts("SHA256"), PSSOpts("auto", "unset")})

\* init() of each signer
SignerRegistered(build) ==
    IF build = "windowsCompat"
    THEN GobRegister({HashOpts("SHA1"), HashOpts("SHA224"), HashOpts("SHA256"),
                      HashOpts("SHA384"), HashOpts("SHA512"),
                      PSSOpts("auto", "unset")})
    ELSE GobRegister({HashOpts("SHA256"), HashOpts("SHA384"), HashOpts("SHA512"),
                      PSSOpts("auto", "unset")})

\* gob encoding of an interface-typed field: a nil interface is left out of
\* the message; any other value is sent as the registered name of its
\* concrete type followed by its fields, and a value of a type that was
\* not registered cannot be encoded
GobEncodeOpts(opts, registered) ==
    IF opts = NilOpts THEN [err |-> "nil", wire |-> <<>>]
    ELSE IF opts.type \notin registered
         THEN [err |-> ErrGobNotRegistered, wire |-> <<>>]
    ELSE IF opts.type = "crypto.Hash"
         THEN [err |-> "nil", wire |-> <<opts.type, opts.hash>>]
    ELSE [err |-> "nil", wire |-> <<opts.type, opts.salt, opts.hash>>]

\* gob decoding of an interface-typed field: a field left out of the message
\* stays nil; otherwise the name is looked up among the registered types
\* and a value of that concrete type is built from the fields
GobDecodeOpts(wire, registered) ==
    IF wire = <<>> THEN [err |-> "nil", opts |-> NilOpts]
    ELSE IF wire[1] \notin registered
         THEN [err |-> ErrGobNotRegistered, opts |-> NilOpts]
    ELSE IF wire[1] = "crypto.Hash"
         THEN [err |-> "nil", opts |-> HashOpts(wire[2])]
    ELSE [err |-> "nil", opts |-> PSSOpts(wire[2], wire[3])]

\* the client's rpc codec encodes SignArgs{Digest, Hash, Opts}
EncodeSignArgs(args) ==
    LET o == GobEncodeOpts(args.opts, ClientRegistered)
    IN  [err |-> o.err,
         msg |-> [Digest |-> args.digest, Hash |-> args.hash, Opts |-> o.wire]]

\* the signer's rpc codec decodes the message into its own SignArgs{Digest,
\* Opts}: a field of the message the struct does not have is skipped. The
\* Sign handler of the windowsCompat signer reads args.Hash, which its
\* SignArgs declaration leaves out; it is taken to receive the Hash sent
DecodeSignArgs(build, msg) ==
    LET o == GobDecodeOpts(msg.Opts, SignerRegistered(build))
    IN  [err |-> o.err,
         args |-> [digest |-> msg.Digest,
                   hash |-> IF build = "windowsCompat" THEN msg.Hash ELSE "",
                   opts |-> o.opts]]

\* the options EnterpriseCertSigner.Sign hands to k.key.Sign: args.Opts; the
\* windowsCompat signer hands over args.Hash when args.Opts is nil
SignHandlerOpts(build, args) ==
    IF build = "windowsCompat" /\ args.opts = NilOpts
    THEN HashOpts(args.hash)
    ELSE args.opts

\* what k.key.Sign(nil, digest, opts) can do. The keychain Key evaluates
\* opts.HashFunc(), a panic on nil opts, and refuses a hash outside its
\* tables; the PKCS#11 and CNG providers are libraries, which may sign,
\* refuse or panic on nil opts
ProviderSignOutcomes(build, opts) ==
    IF build = "darwin"
    THEN IF opts = NilOpts THEN {"panic"}
         ELSE IF HashFunc(opts) \notin KeychainHashes THEN {"error"}
         ELSE {"signature", "error"}
    ELSE IF opts = NilOpts THEN {"signature", "error", "panic"}
         ELSE {"signature", "error"}

-----------------------------------------------------------------------------
(* State *)

VARIABLES
    \* ---- client process
    clientAlive,   \* the client process exists
    panicked,      \* a goroutine of the client hit a runtime panic
    credPc,        \* position of Cred: init, chain, public, done, failed;
                   \* manual when the signer was started by hand, dead
                   \* when the client process is gone
    credErr,       \* the error Cred returned
    credSteps,     \* the startup steps Cred performed, in order
    credCfg,       \* the config path Cred works with, until the signer runs:
                   \* the argument, the environment value, the resolved path,
                   \* the path the signer binary path was read from and the
                   \* file found there
    keyReturned,   \* Cred returned a Key to its caller
    chain,         \* Key.chain
    publicKey,     \* Key.publicKey
    calls,         \* per caller: its current client.Call
    seq,           \* rpc.Client.seq: calls issued so far
    closing,       \* rpc.Client.closing
    shutdown,      \* rpc.Client.shutdown
    rdCloseCalls,  \* Close calls made on the client's read end (kout)
    wrCloseCalls,  \* Close calls made on the client's write end (kin)
    lastClose,     \* arguments and result of the last Transport.Close
    closePc,       \* position of Key.Close: idle, kill, wait, returned
    closeCalls,    \* calls of Key.Close so far
    closeSteps,    \* cleanup steps the current Key.Close attempted
    closeErr,      \* the error the last Key.Close returned
    closePre,      \* what the Key looked like when Key.Close was called
    \* ---- pipes
    reqs,          \* requests written to the signer's stdin, unread
    resps,         \* replies written to the signer's stdout, unread
    \* ---- signer process
    sPc,           \* position of main: none, args, load, cred, register,
                   \* serve, exited
    sExit,         \* how the signer ended: none, clean, fatal, killed, panic
    sArgc,         \* len(os.Args) of the signer
    sConfigFilePath, \* os.Args[1], until main has loaded the config from it
    reaped,        \* the parent has waited on the signer
    sConfig,       \* the config main holds: none, loaded, zero (the zero
                   \* value a failed load returns)
    skey,          \* enterpriseCertSigner.key: chain and public key
    served,        \* RPC replies the signer has written
    ppid,          \* os.Getppid() as the signer sees it
    wPc,           \* watchdog goroutine: off, check, sleep
    wTimer,        \* seconds left of the watchdog's sleep
    sConnClose,    \* the ends closed by the signer's Connection.Close
    \* ---- one Sign request on its way to the provider of a serving signer
    signerBuild,   \* the signer executable that serves
    signPc,        \* idle, sent, decoded, done, crashed
    signArgs,      \* the SignArgs the caller built
    signMsg,       \* the gob message on the signer's stdin
    signDecoded,   \* the SignArgs the signer decoded
    signOut,       \* how the request ended and the options the provider got
    \* ---- a Key that encrypts and decrypts
    cryptProvider, \* the provider behind the Key
    keyHash,       \* the hash stored on the provider's key object
    cryptPc,       \* idle, encrypted, decrypted
    cryptArgs,     \* the plaintext and the hashes of the last Encrypt and
                   \* Decrypt
    cryptCipher,   \* what the last Encrypt returned
    cryptResult,   \* what the last Decrypt returned
    \* ---- a program that calls the C shared library
    libCred,       \* what client.Cred gives for the caller's config file
    libCall,       \* the last call: entry point, buffer given, its length,
                   \* the bytes to deliver
    libRet,        \* what the call returned, the caller's buffer afterwards
                   \* and whether the call panicked
    libLen,        \* per entry point, what the last call without a buffer
                   \* returned
    \* ---- the ECP proxy
    proxyReq,      \* the request the handler served last
    proxyOut,      \* the requests handed to the mTLS transport for it
    proxyRT,       \* what the round trip of the transport gave: nothing
                   \* yet, an error, or the backend's response
    proxyResp,     \* the response written for it
    \* ---- a program that logs through package utils
    isEcpLogEnabled, \* ENABLE_ENTERPRISE_CERTIFICATE_LOGS was set at init
    logRuns,       \* the process has not exited
    logExit,       \* its exit status
    logOutput,     \* the lines stdLogger wrote to stderr
    logLast,       \* the last function called and whether it returned
    logCalls,      \* calls made
    \* ---- the chain construction of the keychain Cred
    allCerts,      \* the valid certificates of the keychain, in the order
                   \* the search returned them
    leaf,          \* the certificate of the selected identity
    certs,         \* the chain built so far
    prev,          \* the certificate the next iteration appends, or nil
    \* ---- Close of a keychain Key
    onceDone,      \* done of k.once
    onceM,         \* who holds the mutex of k.once
    kcPc,          \* per caller: idle, do, doSlow, releasePrivate,
                   \* releasePublic, store, return
    kcCalls,       \* per caller, calls of Close made
    kcReturned,    \* per caller, what its calls of Close returned
    released,      \* CFRelease calls on privateKeyRef and on publicKeyRef
    \* ---- runServer of the ECP proxy
    rsPc,          \* runServer: init, select, shutdown, returned
    rsRet,         \* what runServer returned
    goPc,          \* the goroutine of ListenAndServe: none, listen, serving,
                   \* exited
    goErr,         \* what ListenAndServe returned
    errChan,       \* the buffered channel of the goroutine's error
    ctxDone,       \* the context was cancelled
    accepting,     \* the server's listener is open
    inShutdown,    \* Shutdown was called on the server
    conns,         \* active connections
    elapsed,       \* seconds of the shutdown context that have passed
    \* ---- a process that obtains Keys from Cred
    userLast,      \* the function that ran last, whether its Cred
                   \* succeeded, its path and whether it called Key.Close
    userCalls,     \* functions run
    userExited,    \* the process has ended
    keysOpened,    \* Keys successful Creds returned
    keysClosed,    \* Keys on which Close was called
    \* ---- the goroutines that serve requests in the linux signer
    hReq           \* per request: the method, the hash of its arguments,
                   \* the position of its goroutine, the hash it was
                   \* processed with

clientVars == <<clientAlive, panicked, credPc, credErr, credSteps, credCfg,
                keyReturned, chain, publicKey, calls, seq, closing, shutdown,
                rdCloseCalls, wrCloseCalls, lastClose, closePc, closeCalls,
                closeSteps, closeErr, closePre>>
pipeVars == <<reqs, resps>>
signerVars == <<sPc, sExit, sArgc, sConfigFilePath, reaped, sConfig, skey,
                served, ppid, wPc, wTimer, sConnClose>>
signVars == <<signerBuild, signPc, signArgs, signMsg, signDecoded, signOut>>
sessionVars == <<clientVars, pipeVars, signerVars>>
cryptVars == <<cryptProvider, keyHash, cryptPc, cryptArgs, cryptCipher,
               cryptResult>>
libVars == <<libCred, libCall, libRet, libLen>>
proxyVars == <<proxyReq, proxyOut, proxyRT, proxyResp>>
logVars == <<isEcpLogEnabled, logRuns, logExit, logOutput, logLast, logCalls>>
chainVars == <<allCerts, leaf, certs, prev>>
kcloseVars == <<onceDone, onceM, kcPc, kcCalls, kcReturned, released>>
serverVars == <<rsPc, rsRet, goPc, goErr, errChan, ctxDone, accepting,
                inShutdown, conns, elapsed>>
userVars == <<userLast, userCalls, userExited, keysOpened, keysClosed>>
handlerVars == <<hReq>>
auxVars == <<logVars, chainVars, kcloseVars, serverVars, userVars, handlerVars>>
otherVars == <<signVars, cryptVars, libVars, proxyVars, auxVars>>
componentVars == <<sessionVars, signVars, cryptVars, libVars, proxyVars>>
vars == <<sessionVars, otherVars>>

\* Cred has no config path in hand
NoCredCfg ==
    [arg |-> NoPath, env |-> NoPath, path |-> NoPath, read |-> NoPath,
     file |-> ""]

IdleCall ==
    [pc |-> "idle", seq |-> 0, method |-> "", digest |-> <<>>, opts |-> NilOpts,
     reply |-> <<>>, err |-> "nil"]

\* record of one Transport.Close: which ends it closed, what each close
\* returned, and its own result
NoClose ==
    [called |-> FALSE, rd |-> FALSE, wr |-> FALSE, rerr |-> "nil", werr |-> "nil",
     err |-> "nil"]

\* record of the signer's Connection.Close: which ends it closed; its result
\* goes to rpc.ServeConn, which drops it
NoConnClose == [called |-> FALSE, rd |-> FALSE, wr |-> FALSE]

\* no Sign request is under way
NoSignArgs == [digest |-> <<>>, hash |-> "", opts |-> NilOpts]
NoSignMsg == [Digest |-> <<>>, Hash |-> "", Opts |-> <<>>]
NoSignOut == [res |-> "none", used |-> NilOpts]

InitSign ==
    /\ signPc = "idle"
    /\ signArgs = NoSignArgs
    /\ signMsg = NoSignMsg
    /\ signDecoded = NoSignArgs
    /\ signOut = NoSignOut

\* nothing was encrypted or decrypted
NoCryptArgs == [plain |-> <<>>, ehash |-> "", dhash |-> ""]
NoCryptResult == [err |-> "nil", data |-> <<>>]

\* the hash a new key object holds: main of the linux signer stores SHA1
\* with WithHash, newKey of the keychain stores SHA256
InitialKeyHash(provider) ==
    IF provider = "pkcs11" THEN "SHA1" ELSE "SHA256"

InitCrypt ==
    /\ keyHash = InitialKeyHash(cryptProvider)
    /\ cryptPc = "idle"
    /\ cryptArgs = NoCryptArgs
    /\ cryptCipher = NoCryptResult
    /\ cryptResult = NoCryptResult

\* the shared library was not called
NoLibCall == [fn |-> "none", given |-> FALSE, len |-> 0, data |-> <<>>, ok |-> FALSE]
NoLibRet == [ret |-> 0, buf |-> <<>>, panic |-> FALSE]
LibEntryPoints == {"GetCertPem", "Sign"}

InitLib ==
    /\ libCall = NoLibCall
    /\ libRet = NoLibRet
    /\ libLen = [fn \in LibEntryPoints |-> 0]

\* the proxy has served nothing
NoProxyRequest ==
    [method |-> "", targetHost |-> <<>>, scheme |-> "", urlHost |-> EmptyHost,
     host |-> EmptyHost, path |-> "", query |-> ""]
NoProxyResponse ==
    [status |-> 0, contentType |-> "", ecpError |-> "",
     body |-> [code |-> 0, message |-> "", error |-> ""]]
NoRoundTrip == [err |-> "none", res |-> NoProxyResponse]
RoundTripError == [err |-> "round trip failed", res |-> NoProxyResponse]

InitProxy ==
    /\ proxyReq = NoProxyRequest
    /\ proxyOut = <<>>
    /\ proxyRT = NoRoundTrip
    /\ proxyResp = NoProxyResponse

\* the program has logged nothing
NoLogCall == [fn |-> "none", returned |-> TRUE]

InitLog ==
    /\ logRuns = TRUE
    /\ logExit = 0
    /\ logOutput = <<>>
    /\ logLast = NoLogCall
    /\ logCalls = 0

\* no keychain was searched
InitChain ==
    /\ allCerts = <<>>
    /\ leaf = NilCert
    /\ certs = <<>>
    /\ prev = NilCert

\* newKey returned a Key: nothing was released and nobody called Close
InitKeychainKey ==
    /\ onceDone = FALSE
    /\ onceM = NoCloser
    /\ kcPc = [c \in KeychainClosers |-> "idle"]
    /\ kcCalls = [c \in KeychainClosers |-> 0]
    /\ kcReturned = [c \in KeychainClosers |-> <<>>]
    /\ released = [privateKeyRef |-> 0, publicKeyRef |-> 0]

\* runServer was not called
InitServer ==
    /\ rsPc = "init"
    /\ rsRet = "none"
    /\ goPc = "none"
    /\ goErr = "none"
    /\ errChan = <<>>
    /\ ctxDone = FALSE
    /\ accepting = FALSE
    /\ inShutdown = FALSE
    /\ conns = 0
    /\ elapsed = 0

\* the process has obtained no Key
NoKeyUse == [fn |-> "none", credOk |-> FALSE, path |-> "", closed |-> FALSE]

InitUser ==
    /\ userLast = NoKeyUse
    /\ userCalls = 0
    /\ userExited = FALSE
    /\ keysOpened = 0
    /\ keysClosed = 0

\* the server has read no request
NoRequest == [method |-> "none", hash |-> "", pc |-> "none", used |-> ""]

InitHandlers == hReq = [r \in RequestIds |-> NoRequest]

\* the components that are not under study are idle
InitAux ==
    /\ isEcpLogEnabled = FALSE
    /\ InitLog
    /\ InitChain
    /\ InitKeychainKey
    /\ InitServer
    /\ InitUser
    /\ InitHandlers
    /\ InitHandlers
    /\ InitUser
    /\ InitKeychainKey

InitSession ==
    /\ clientAlive = TRUE
    /\ panicked = FALSE
    /\ credPc = "init"
    /\ credErr = "nil"
    /\ credSteps = <<>>
    /\ credCfg = NoCredCfg
    /\ keyReturned = FALSE
    /\ chain = <<>>
    /\ publicKey = NoKey
    /\ calls = [c \in Callers |-> IdleCall]
    /\ seq = 0
    /\ closing = FALSE
    /\ shutdown = FALSE
    /\ rdCloseCalls = 0
    /\ wrCloseCalls = 0
    /\ lastClose = NoClose
    /\ closePc = "idle"
    /\ closeCalls = 0
    /\ closeSteps = {}
    /\ closeErr = "nil"
    /\ closePre = [exited |-> FALSE, pipesClosed |-> FALSE]
    /\ reqs = <<>>
    /\ resps = <<>>
    /\ sPc = "none"
    /\ sExit = "none"
    /\ sArgc = 0
    /\ sConfigFilePath = NoPath
    /\ reaped = FALSE
    /\ sConfig = "none"
    /\ skey = [chain |-> <<>>, pub |-> NoKey]
    /\ served = 0
    /\ ppid = ClientPid
    /\ wPc = "off"
    /\ wTimer = 0
    /\ sConnClose = NoConnClose

InitComponents ==
    /\ InitSession
    /\ signerBuild = "linux"
    /\ InitSign
    /\ cryptProvider = "pkcs11"
    /\ InitCrypt
    /\ libCred = [ok |-> FALSE, chain |-> <<>>, keyType |-> "other"]
    /\ InitLib
    /\ InitProxy

Init ==
    /\ InitComponents
    /\ InitAux

-----------------------------------------------------------------------------
(* Derived state *)

\* the signer process is running
SignerAlive == sPc \notin {"none", "exited"}

\* the client can run: it exists and has not crashed on a panic
ClientRuns == clientAlive /\ ~panicked

\* the client's ends of the pipes are closed (by Close or by its death)
ClientPipesClosed == ~clientAlive \/ (rdCloseCalls > 0 /\ wrCloseCalls > 0)

\* calls written to the transport whose reply has not been received
Outstanding == {c \in Callers : calls[c].pc = "waiting"}

-----------------------------------------------------------------------------
(* net/rpc client: Client.Call as made by Cred and by Key.Sign *)

\* the call record of a caller once its Call, numbered n, has returned
DoneCall(n, method, digest, opts, reply, err) ==
    [pc |-> "done", seq |-> n, method |-> method, digest |-> digest,
     opts |-> opts, reply |-> reply, err |-> err]

\* a call that is sent like client.Go and not waited for: the request is
\* written and the caller carries on without its reply
IssueCallNoWait(c, method, digest, hash, opts, readerGone) ==
    IF shutdown \/ closing
    THEN /\ calls' = [calls EXCEPT ![c] =
                         DoneCall(0, method, digest, opts, <<>>, ErrShutdown)]
         /\ UNCHANGED <<seq, reqs>>
    ELSE /\ seq' = seq + 1
         /\ reqs' = Append(reqs, [seq |-> seq + 1, method |-> method,
                                  digest |-> digest, hash |-> hash, opts |-> opts])
         /\ calls' = [calls EXCEPT ![c] =
                         DoneCall(seq + 1, method, digest, opts, <<>>, "nil")]

\* client.Call(method, args, &reply) up to the point where the caller blocks:
\* a client that is closing or shut down refuses the call, a write to the
\* pipe of a dead signer fails, otherwise the request is written and the
\* caller waits for the reply with its sequence number. readerGone: the
\* process at the other end of the pipe has exited
IssueCall(c, method, digest, hash, opts, readerGone) ==
    IF shutdown \/ closing
    THEN /\ calls' = [calls EXCEPT ![c] =
                         DoneCall(0, method, digest, opts, <<>>, ErrShutdown)]
         /\ UNCHANGED <<seq, reqs>>
    ELSE IF readerGone \/ wrCloseCalls > 0
    THEN /\ seq' = seq + 1
         /\ calls' = [calls EXCEPT ![c] =
                         DoneCall(seq + 1, method, digest, opts, <<>>,
                                  "write: broken pipe")]
         /\ UNCHANGED reqs
    ELSE /\ seq' = seq + 1
         /\ reqs' = Append(reqs, [seq |-> seq + 1, method |-> method,
                                  digest |-> digest, hash |-> hash, opts |-> opts])
         /\ calls' = [calls EXCEPT ![c] =
                         [pc |-> "waiting", seq |-> seq + 1, method |-> method,
                          digest |-> digest, opts |-> opts, reply |-> <<>>,
                          err |-> "nil"]]

\* an input loop that treats an error reply of the signer like a broken
\* connection and shuts the client down
ClientInputFatalOnError ==
    /\ ClientRuns
    /\ ~shutdown
    /\ rdCloseCalls = 0
    /\ resps # <<>>
    /\ LET r == Head(resps)
           owners == {c \in Callers : calls[c].pc = "waiting" /\ calls[c].seq = r.seq}
       IN  calls' = [c \in Callers |->
                        IF c \in owners
                        THEN DoneCall(calls[c].seq, calls[c].method, calls[c].digest,
                                      calls[c].opts, r.body, r.err)
                        ELSE calls[c]]
    /\ resps' = Tail(resps)
    /\ shutdown' = (Head(resps).err # "nil")
    /\ UNCHANGED <<clientAlive, panicked, credPc, credErr, credSteps, credCfg,
                   keyReturned, chain, publicKey, seq, closing, rdCloseCalls,
                   wrCloseCalls, lastClose, closePc, closeCalls, closeSteps,
                   closeErr, closePre, reqs, signerVars>>
    /\ UNCHANGED otherVars

\* rpc.Client.input: read one reply and hand it to the call that waits for
\* its sequence number; a reply nobody waits for is dropped
ClientInput ==
    /\ ClientRuns
    /\ ~shutdown
    /\ rdCloseCalls = 0
    /\ resps # <<>>
    /\ LET r == Head(resps)
           owners == {c \in Callers : calls[c].pc = "waiting" /\ calls[c].seq = r.seq}
       IN  calls' = [c \in Callers |->
                        IF c \in owners
                        THEN DoneCall(calls[c].seq, calls[c].method, calls[c].digest,
                                      calls[c].opts, r.body, r.err)
                        ELSE calls[c]]
    /\ resps' = Tail(resps)
    /\ UNCHANGED <<clientAlive, panicked, credPc, credErr, credSteps, credCfg,
                   keyReturned, chain, publicKey, seq, closing, shutdown,
                   rdCloseCalls, wrCloseCalls, lastClose, closePc, closeCalls,
                   closeSteps, closeErr, closePre, reqs, signerVars>>
    /\ UNCHANGED otherVars

\* rpc.Client.input: the read fails (the read end was closed, or the signer
\* is gone and its output is drained); every pending call is terminated and
\* the client is marked shut down
ClientInputError ==
    /\ ClientRuns
    /\ ~shutdown
    /\ sPc # "none"
    /\ \/ rdCloseCalls > 0
       \/ ~SignerAlive /\ resps = <<>>
    /\ shutdown' = TRUE
    /\ calls' = [c \in Callers |->
                    IF calls[c].pc = "waiting"
                    THEN DoneCall(calls[c].seq, calls[c].method, calls[c].digest, calls[c].opts,
                                  <<>>, IF closing THEN ErrShutdown ELSE ErrUnexpectedEOF)
                    ELSE calls[c]]
    /\ UNCHANGED <<clientAlive, panicked, credPc, credErr, credSteps, credCfg,
                   keyReturned, chain, publicKey, seq, closing, rdCloseCalls,
                   wrCloseCalls, lastClose, closePc, closeCalls, closeSteps,
                   closeErr, closePre, pipeVars, signerVars>>
    /\ UNCHANGED otherVars

-----------------------------------------------------------------------------
(* Cred *)

CredFails(err) ==
    /\ credPc' = "failed"
    /\ credErr' = err

\* a Cred that reads the signer path from the resolved config and starts the
\* signer with the default config path
CredStartPassesDefault(arg, env, cfg, homeOk, pipesOk) ==
    /\ ClientRuns
    /\ credPc = "init"
    /\ LET path == ResolveConfigPath(arg, env)
           lp == LoadSignerBinaryPath(cfg, homeOk)
       IN  /\ credCfg' = [arg |-> arg, env |-> env, path |-> path,
                          read |-> path, file |-> cfg]
           /\ IF lp.err # "nil"
              THEN /\ CredFails(lp.err)
                   /\ UNCHANGED <<credSteps, calls, seq, reqs, sPc, sArgc,
                                  sConfigFilePath>>
              ELSE IF ~pipesOk
              THEN /\ CredFails("pipe: too many open files")
                   /\ UNCHANGED <<credSteps, calls, seq, reqs, sPc, sArgc,
                                  sConfigFilePath>>
              ELSE IF CmdStart(lp.path) # "nil"
              THEN /\ CredFails("starting enterprise cert signer subprocess")
                   /\ credSteps' = <<"start">>
                   /\ UNCHANGED <<calls, seq, reqs, sPc, sArgc,
                                  sConfigFilePath>>
              ELSE /\ credPc' = "chain"
                   /\ credErr' = "nil"
                   /\ credSteps' = <<"start", "chain">>
                   /\ sPc' = "args"
                   /\ sArgc' = RequiredArgs
                   /\ sConfigFilePath' = DefaultConfigFilePath
                   /\ IssueCall(CredCaller, certificateChainAPI, <<>>, "", NilOpts,
                                FALSE)
    /\ UNCHANGED <<clientAlive, panicked, keyReturned, chain, publicKey,
                   closing, shutdown, rdCloseCalls, wrCloseCalls, lastClose,
                   closePc, closeCalls, closeSteps, closeErr, closePre, resps,
                   sExit, reaped, sConfig, skey, served, ppid, wPc, wTimer,
                   sConnClose>>
    /\ UNCHANGED otherVars

\* Cred up to its first blocking call: resolve the config path (arg: the
\* argument of Cred, env: the environment override), read the signer path
\* from the config at that path (cfg: the file found there), create the
\* pipes and the RPC client, start the subprocess with the config path as
\* its only argument, issue the CertificateChain call
CredStart(arg, env, cfg, homeOk, pipesOk) ==
    /\ ClientRuns
    /\ credPc = "init"
    /\ LET path == ResolveConfigPath(arg, env)
           lp == LoadSignerBinaryPath(cfg, homeOk)
       IN  /\ credCfg' = [arg |-> arg, env |-> env, path |-> path,
                          read |-> path, file |-> cfg]
           /\ IF lp.err # "nil"
              THEN /\ CredFails(lp.err)
                   /\ UNCHANGED <<credSteps, calls, seq, reqs, sPc, sArgc,
                                  sConfigFilePath>>
              ELSE IF ~pipesOk
              THEN /\ CredFails("pipe: too many open files")
                   /\ UNCHANGED <<credSteps, calls, seq, reqs, sPc, sArgc,
                                  sConfigFilePath>>
              ELSE IF CmdStart(lp.path) # "nil"
              THEN /\ CredFails("starting enterprise cert signer subprocess")
                   /\ credSteps' = <<"start">>
                   /\ UNCHANGED <<calls, seq, reqs, sPc, sArgc,
                                  sConfigFilePath>>
              ELSE /\ credPc' = "chain"
                   /\ credErr' = "nil"
                   /\ credSteps' = <<"start", "chain">>
                   /\ sPc' = "args"
                   /\ sArgc' = RequiredArgs
                   /\ sConfigFilePath' = path
                   /\ IssueCall(CredCaller, certificateChainAPI, <<>>, "", NilOpts,
                                FALSE)
    /\ UNCHANGED <<clientAlive, panicked, keyReturned, chain, publicKey,
                   closing, shutdown, rdCloseCalls, wrCloseCalls, lastClose,
                   closePc, closeCalls, closeSteps, closeErr, closePre, resps,
                   sExit, reaped, sConfig, skey, served, ppid, wPc, wTimer,
                   sConnClose>>
    /\ UNCHANGED otherVars

\* Cred after the CertificateChain call returned: give up on an error, else
\* keep the chain and issue the Public call
CredChainReturned ==
    /\ ClientRuns
    /\ credPc = "chain"
    /\ calls[CredCaller].pc = "done"
    /\ IF calls[CredCaller].err # "nil"
       THEN /\ CredFails("CertificateChain RPC")
            /\ UNCHANGED <<credSteps, chain, calls, seq, reqs>>
       ELSE /\ chain' = calls[CredCaller].reply
            /\ credPc' = "public"
            /\ credErr' = "nil"
            /\ credSteps' = Append(credSteps, "public")
            /\ IssueCall(CredCaller, publicKeyAPI, <<>>, "", NilOpts, ~SignerAlive)
    /\ credCfg' = NoCredCfg
    /\ UNCHANGED <<clientAlive, panicked, keyReturned, publicKey, closing,
                   shutdown, rdCloseCalls, wrCloseCalls, lastClose, closePc,
                   closeCalls, closeSteps, closeErr, closePre, resps,
                   signerVars>>
    /\ UNCHANGED otherVars

\* a Cred that decodes the public key bytes and returns the Key without
\* looking at the decode error
CredPublicReturnedUnchecked ==
    /\ ClientRuns
    /\ credPc = "public"
    /\ calls[CredCaller].pc = "done"
    /\ IF calls[CredCaller].err # "nil"
       THEN /\ CredFails("Public RPC")
            /\ UNCHANGED <<credSteps, publicKey, keyReturned>>
       ELSE LET parsed == ParsePKIXPublicKey(calls[CredCaller].reply)
            IN  /\ credSteps' = Append(credSteps, "parse")
                /\ publicKey' = parsed.key
                /\ credPc' = "done"
                /\ credErr' = "nil"
                /\ keyReturned' = TRUE
    /\ UNCHANGED <<clientAlive, panicked, credCfg, chain, calls, seq, closing,
                   shutdown, rdCloseCalls, wrCloseCalls, lastClose, closePc,
                   closeCalls, closeSteps, closeErr, closePre, pipeVars,
                   signerVars>>
    /\ UNCHANGED otherVars

\* Cred after the Public call returned: give up on an error, else decode the
\* public key bytes and return the Key
CredPublicReturned ==
    /\ ClientRuns
    /\ credPc = "public"
    /\ calls[CredCaller].pc = "done"
    /\ IF calls[CredCaller].err # "nil"
       THEN /\ CredFails("Public RPC")
            /\ UNCHANGED <<credSteps, publicKey, keyReturned>>
       ELSE LET parsed == ParsePKIXPublicKey(calls[CredCaller].reply)
            IN  /\ credSteps' = Append(credSteps, "parse")
                /\ IF parsed.err # "nil"
                   THEN /\ CredFails("parsing public key from enterprise cert signer")
                        /\ UNCHANGED <<publicKey, keyReturned>>
                   ELSE /\ publicKey' = parsed.key
                        /\ credPc' = "done"
                        /\ credErr' = "nil"
                        /\ keyReturned' = TRUE
    /\ UNCHANGED <<clientAlive, panicked, credCfg, chain, calls, seq, closing,
                   shutdown, rdCloseCalls, wrCloseCalls, lastClose, closePc,
                   closeCalls, closeSteps, closeErr, closePre, pipeVars,
                   signerVars>>
    /\ UNCHANGED otherVars

-----------------------------------------------------------------------------
(* Key.Sign *)

\* Key.Sign(_, digest, opts): build SignArgs{Digest, Hash: opts.HashFunc(),
\* Opts} and make one Sign call; evaluating opts.HashFunc() on an absent opts
\* is a nil-interface method call and panics before anything is sent. The
\* callers are interchangeable: the call is made by the lowest-numbered
\* caller that is not blocked in a call
KeySign(c, digest, opts) ==
    /\ ClientRuns
    /\ keyReturned
    /\ calls[c].pc \in {"idle", "done"}
    /\ \A u \in Users : u < c => calls[u].pc = "waiting"
    /\ seq < MaxSeq
    /\ IF HashFunc(opts) = "panic"
       THEN /\ panicked' = TRUE
            /\ calls' = [calls EXCEPT ![c] =
                            [pc |-> "panicked", seq |-> 0,
                             method |-> signAPI, digest |-> digest, opts |-> opts,
                             reply |-> <<>>, err |-> "nil"]]
            /\ UNCHANGED <<seq, reqs>>
       ELSE /\ IssueCall(c, signAPI, digest, HashFunc(opts), opts, ~SignerAlive)
            /\ UNCHANGED panicked
    /\ UNCHANGED <<clientAlive, credPc, credErr, credSteps, credCfg,
                   keyReturned, chain, publicKey, closing, shutdown,
                   rdCloseCalls, wrCloseCalls, lastClose, closePc, closeCalls,
                   closeSteps, closeErr, closePre, resps, signerVars>>
    /\ UNCHANGED otherVars

-----------------------------------------------------------------------------
(* Key.Close *)

\* the signer process ends: main is gone and the watchdog goroutine with it
SignerExits(how) ==
    /\ sPc' = "exited"
    /\ sExit' = how
    /\ wPc' = "off"
    /\ wTimer' = 0

\* a Kill that first reads k.cmd.ProcessState, which is nil until Wait
KillResultsReadsState(pc, waited) ==
    IF waited THEN {ErrProcessDone} ELSE {"panic"}

\* k.cmd.Process.Kill(): a running child is killed; a child that has exited
\* but was not waited on is killed without error on Unix and refused on
\* Windows; a child that was waited on is refused; without a started
\* process k.cmd.Process is nil and the call panics
KillResults(pc, waited) ==
    CASE pc = "none" -> {"panic"}
      [] pc = "exited" /\ waited -> {ErrProcessDone}
      [] pc = "exited" /\ ~waited -> {"nil", ErrProcessDone}
      [] OTHER -> {"nil"}

\* Key.Close, first step: k.client.Close(). rpc.Client.Close refuses a second
\* close, otherwise marks the client closing and closes the Transport; an
\* error ends Key.Close at once
KeyCloseConn(rerr, werr) ==
    /\ ClientRuns
    /\ keyReturned
    /\ closePc \in {"idle", "returned"}
    /\ closeCalls < MaxCloseCalls
    /\ closeCalls' = closeCalls + 1
    /\ closeSteps' = {"conn"}
    /\ closePre' = [exited |-> sPc = "exited",
                    pipesClosed |-> rdCloseCalls > 0 /\ wrCloseCalls > 0]
    /\ IF closing
       THEN /\ closePc' = "returned"
            /\ closeErr' = "Closing RPC connection"
            /\ UNCHANGED <<closing, rdCloseCalls, wrCloseCalls, lastClose>>
       ELSE LET t == TransportClose(rerr, werr)
            IN  /\ closing' = TRUE
                /\ rdCloseCalls' = rdCloseCalls + (IF t.readCloseCalled THEN 1 ELSE 0)
                /\ wrCloseCalls' = wrCloseCalls + (IF t.writeCloseCalled THEN 1 ELSE 0)
                /\ lastClose' = [called |-> TRUE, rd |-> t.readCloseCalled,
                                 wr |-> t.writeCloseCalled, rerr |-> rerr,
                                 werr |-> werr, err |-> t.err]
                /\ IF t.err # "nil"
                   THEN /\ closePc' = "returned"
                        /\ closeErr' = "Closing RPC connection"
                   ELSE /\ closePc' = "kill"
                        /\ closeErr' = "nil"
    /\ UNCHANGED <<clientAlive, panicked, credPc, credErr, credSteps, credCfg,
                   keyReturned, chain, publicKey, calls, seq, shutdown,
                   pipeVars, signerVars>>
    /\ UNCHANGED otherVars

\* Key.Close, second step: k.cmd.Process.Kill(); an error ends Key.Close
KeyCloseKill(kr) ==
    /\ ClientRuns
    /\ closePc = "kill"
    /\ kr \in KillResults(sPc, reaped)
    /\ closeSteps' = closeSteps \cup {"kill"}
    /\ IF kr = "panic"
       THEN /\ panicked' = TRUE
            /\ closePc' = "panicked"
            /\ UNCHANGED <<closeErr, sPc, sExit, wPc, wTimer>>
       ELSE /\ UNCHANGED panicked
            /\ IF kr # "nil"
               THEN /\ closePc' = "returned"
                    /\ closeErr' = "Killing signer process"
                    /\ UNCHANGED <<sPc, sExit, wPc, wTimer>>
               ELSE /\ closePc' = "wait"
                    /\ closeErr' = "nil"
                    /\ IF SignerAlive
                       THEN SignerExits("killed")
                       ELSE UNCHANGED <<sPc, sExit, wPc, wTimer>>
    /\ UNCHANGED <<clientAlive, credPc, credErr, credSteps, credCfg,
                   keyReturned, chain, publicKey, calls, seq, closing,
                   shutdown, rdCloseCalls, wrCloseCalls, lastClose,
                   closeCalls, closePre, pipeVars, sArgc, sConfigFilePath,
                   reaped, sConfig, skey, served, ppid, sConnClose>>
    /\ UNCHANGED otherVars

\* Key.Close, third step: return k.cmd.Wait(). Wait blocks until the child
\* has exited, reaps it and reports how it ended
KeyCloseWait ==
    /\ ClientRuns
    /\ closePc = "wait"
    /\ sPc = "exited"
    /\ closeSteps' = closeSteps \cup {"wait"}
    /\ closePc' = "returned"
    /\ IF reaped
       THEN /\ closeErr' = "exec: Wait was already called"
            /\ UNCHANGED reaped
       ELSE /\ reaped' = TRUE
            /\ closeErr' = CASE sExit = "clean" -> "nil"
                             [] sExit = "killed" -> "signal: killed"
                             [] OTHER -> "exit status"
    /\ UNCHANGED <<clientAlive, panicked, credPc, credErr, credSteps, credCfg,
                   keyReturned, chain, publicKey, calls, seq, closing,
                   shutdown, rdCloseCalls, wrCloseCalls, lastClose,
                   closeCalls, closePre, pipeVars, sPc, sExit, sArgc,
                   sConfigFilePath, sConfig, skey, served, ppid, wPc, wTimer,
                   sConnClose>>
    /\ UNCHANGED otherVars

-----------------------------------------------------------------------------
(* Environment of the client *)

\* the client process dies without closing the Key: its memory is gone, its
\* ends of the pipes are closed by the system and a living signer is
\* re-parented to init
ParentDies ==
    /\ clientAlive
    /\ sPc # "none"
    /\ clientAlive' = FALSE
    /\ ppid' = InitPid
    /\ panicked' = FALSE
    /\ credPc' = "dead"
    /\ credErr' = "nil"
    /\ credSteps' = <<>>
    /\ credCfg' = NoCredCfg
    /\ keyReturned' = FALSE
    /\ chain' = <<>>
    /\ publicKey' = NoKey
    /\ calls' = [c \in Callers |-> IdleCall]
    /\ seq' = 0
    /\ closing' = FALSE
    /\ shutdown' = FALSE
    /\ lastClose' = NoClose
    /\ closePc' = "idle"
    /\ closeCalls' = 0
    /\ closeSteps' = {}
    /\ closeErr' = "nil"
    /\ closePre' = [exited |-> FALSE, pipesClosed |-> FALSE]
    /\ rdCloseCalls' = 0
    /\ wrCloseCalls' = 0
    /\ resps' = <<>>
    /\ UNCHANGED <<reqs, sPc, sExit, sArgc, sConfigFilePath, reaped, sConfig,
                   skey, served, wPc, wTimer, sConnClose>>
    /\ UNCHANGED otherVars

-----------------------------------------------------------------------------
(* Signer: main *)

\* the signer binary is started by hand from another program or a shell,
\* not by Cred, with any number of arguments; that program is its parent
SignerInvoked(argc) ==
    /\ clientAlive
    /\ credPc = "init"
    /\ sPc = "none"
    /\ credPc' = "manual"
    /\ sPc' = "args"
    /\ sArgc' = argc
    /\ sConfigFilePath' = IF argc >= RequiredArgs THEN DefaultConfigFilePath
                          ELSE NoPath
    /\ UNCHANGED <<clientAlive, panicked, credErr, credSteps, credCfg,
                   keyReturned, chain, publicKey, calls, seq, closing,
                   shutdown, rdCloseCalls, wrCloseCalls, lastClose, closePc,
                   closeCalls, closeSteps, closeErr, closePre, pipeVars,
                   sExit, reaped, sConfig, skey, served, ppid, wPc, wTimer,
                   sConnClose>>
    /\ UNCHANGED otherVars

\* a check that only refuses a missing config path
SignerCheckArgsAtLeast ==
    /\ sPc = "args"
    /\ IF sArgc < RequiredArgs
       THEN SignerExits("fatal")
       ELSE /\ sPc' = "load"
            /\ UNCHANGED <<sExit, wPc, wTimer>>
    /\ UNCHANGED <<clientVars, pipeVars, sArgc, sConfigFilePath, reaped,
                   sConfig, skey, served, ppid, sConnClose>>
    /\ UNCHANGED otherVars

\* main: len(os.Args) != 2 is fatal
SignerCheckArgs ==
    /\ sPc = "args"
    /\ IF sArgc # RequiredArgs
       THEN SignerExits("fatal")
       ELSE /\ sPc' = "load"
            /\ UNCHANGED <<sExit, wPc, wTimer>>
    /\ UNCHANGED <<clientVars, pipeVars, sArgc, sConfigFilePath, reaped,
                   sConfig, skey, served, ppid, sConnClose>>
    /\ UNCHANGED otherVars

\* main: load the config from configFilePath. The file is read again here,
\* after the client read it. The Linux and macOS signers end on an error of
\* the load (checked); the Windows signer assigns the error and goes on to
\* the key lookup with the zero value the failed load returned
SignerLoadConfig(ok, checked) ==
    /\ sPc = "load"
    /\ sConfigFilePath' = NoPath
    /\ IF ~ok /\ checked
       THEN /\ SignerExits("fatal")
            /\ UNCHANGED sConfig
       ELSE /\ sPc' = "cred"
            /\ sConfig' = IF ok THEN "loaded" ELSE "zero"
            /\ UNCHANGED <<sExit, wPc, wTimer>>
    /\ UNCHANGED <<clientVars, pipeVars, sArgc, reaped, skey, served, ppid,
                   sConnClose>>
    /\ UNCHANGED otherVars

\* pkcs11.Cred: the first certificate object and the first public-key object
\* under the label become the chain and the public key of the Key; indexing
\* an empty object list is a runtime panic
Pkcs11Cred(token, slotOk) ==
    IF ~slotOk
    THEN [err |-> "pkcs11: cannot open slot", chain |-> <<>>, pub |-> NoKey]
    ELSE IF token.certs = <<>> \/ token.pubKeys = <<>>
    THEN [err |-> "panic", chain |-> <<>>, pub |-> NoKey]
    ELSE [err |-> "nil",
          chain |-> <<CertificateOf(token.certs[1])>>,
          pub |-> token.pubKeys[1]]

\* ncrypt.Cred(certInfo.Issuer, certInfo.Store, certInfo.Provider) on the
\* zero config: the empty provider is neither local_machine nor current_user
NcryptCredZeroConfig ==
    [err |-> "provider must be local_machine or current_user", chain |-> <<>>,
     pub |-> NoKey]

\* a main that logs the error of the key lookup and carries on
SignerCredIgnoresError(token, slotOk) ==
    /\ sPc = "cred"
    /\ LET k == IF sConfig = "zero" THEN NcryptCredZeroConfig
                ELSE Pkcs11Cred(token, slotOk)
       IN  IF k.err = "panic"
           THEN /\ SignerExits("panic")
                /\ UNCHANGED skey
           ELSE /\ skey' = [chain |-> k.chain, pub |-> k.pub]
                /\ sPc' = "register"
                /\ UNCHANGED <<sExit, wPc, wTimer>>
    /\ UNCHANGED <<clientVars, pipeVars, sArgc, sConfigFilePath, reaped,
                   sConfig, served, ppid, sConnClose>>
    /\ UNCHANGED otherVars

\* main: resolve the key with the config it holds (pkcs11.Cred on Linux,
\* ncrypt.Cred on Windows); an error is fatal
SignerCred(token, slotOk) ==
    /\ sPc = "cred"
    /\ LET k == IF sConfig = "zero" THEN NcryptCredZeroConfig
                ELSE Pkcs11Cred(token, slotOk)
       IN  IF k.err = "panic"
           THEN /\ SignerExits("panic")
                /\ UNCHANGED skey
           ELSE IF k.err # "nil"
           THEN /\ SignerExits("fatal")
                /\ UNCHANGED skey
           ELSE /\ skey' = [chain |-> k.chain, pub |-> k.pub]
                /\ sPc' = "register"
                /\ UNCHANGED <<sExit, wPc, wTimer>>
    /\ UNCHANGED <<clientVars, pipeVars, sArgc, sConfigFilePath, reaped,
                   sConfig, served, ppid, sConnClose>>
    /\ UNCHANGED otherVars

\* main: rpc.Register, start the watchdog goroutine, enter rpc.ServeConn
SignerRegister ==
    /\ sPc = "register"
    /\ sPc' = "serve"
    /\ wPc' = "check"
    /\ UNCHANGED <<clientVars, pipeVars, sExit, sArgc, sConfigFilePath,
                   reaped, sConfig, skey, served, ppid, wTimer, sConnClose>>
    /\ UNCHANGED otherVars

\* a watchdog without the loop: it looks at the parent once and ends
WatchdogCheckOnce ==
    /\ SignerAlive
    /\ wPc = "check"
    /\ IF ppid = InitPid
       THEN SignerExits("fatal")
       ELSE /\ wPc' = "off"
            /\ wTimer' = 0
            /\ UNCHANGED <<sPc, sExit>>
    /\ UNCHANGED <<clientVars, pipeVars, sArgc, sConfigFilePath, reaped,
                   sConfig, skey, served, ppid, sConnClose>>
    /\ UNCHANGED otherVars

\* watchdog goroutine: if os.Getppid() == 1 the process exits (log.Fatalln),
\* otherwise it sleeps for one second
WatchdogCheck ==
    /\ SignerAlive
    /\ wPc = "check"
    /\ IF ppid = InitPid
       THEN SignerExits("fatal")
       ELSE /\ wPc' = "sleep"
            /\ wTimer' = WatchdogInterval
            /\ UNCHANGED <<sPc, sExit>>
    /\ UNCHANGED <<clientVars, pipeVars, sArgc, sConfigFilePath, reaped,
                   sConfig, skey, served, ppid, sConnClose>>
    /\ UNCHANGED otherVars

\* watchdog goroutine: one second of time.Sleep passes; the loop checks
\* again when the sleep is over
WatchdogSleep ==
    /\ SignerAlive
    /\ wPc = "sleep"
    /\ wTimer' = wTimer - 1
    /\ wPc' = IF wTimer - 1 <= 0 THEN "check" ELSE "sleep"
    /\ UNCHANGED <<clientVars, pipeVars, sPc, sExit, sArgc, sConfigFilePath,
                   reaped, sConfig, skey, served, ppid, sConnClose>>
    /\ UNCHANGED otherVars

-----------------------------------------------------------------------------
(* Signer: rpc.ServeConn and the RPC handlers *)

\* the server writes a reply to stdout; a reply written after the reader
\* closed its end is lost
WriteReply(reply) ==
    /\ served' = served + 1
    /\ resps' = IF ClientPipesClosed THEN resps ELSE Append(resps, reply)

\* k.key.Sign(nil, digest, opts) when it succeeds: bytes made from the key
\* and the digest
ProviderSign(digest) == <<skey.pub>> \o digest

\* EnterpriseCertSigner.CertificateChain
ServeCertificateChain ==
    /\ sPc = "serve"
    /\ reqs # <<>>
    /\ Head(reqs).method = certificateChainAPI
    /\ reqs' = Tail(reqs)
    /\ WriteReply([seq |-> Head(reqs).seq, err |-> "nil", body |-> skey.chain])
    /\ UNCHANGED <<clientVars, sPc, sExit, sArgc, sConfigFilePath, reaped,
                   sConfig, skey, ppid, wPc, wTimer, sConnClose>>
    /\ UNCHANGED otherVars

\* EnterpriseCertSigner.Public
ServePublic ==
    /\ sPc = "serve"
    /\ reqs # <<>>
    /\ Head(reqs).method = publicKeyAPI
    /\ reqs' = Tail(reqs)
    /\ WriteReply([seq |-> Head(reqs).seq, err |-> "nil",
                   body |-> MarshalPKIXPublicKey(skey.pub)])
    /\ UNCHANGED <<clientVars, sPc, sExit, sArgc, sConfigFilePath, reaped,
                   sConfig, skey, ppid, wPc, wTimer, sConnClose>>
    /\ UNCHANGED otherVars

\* EnterpriseCertSigner.Sign: k.key.Sign(nil, args.Digest, args.Opts); the
\* provider returns a signature or rejects the digest
ServeSign(accepted) ==
    /\ sPc = "serve"
    /\ reqs # <<>>
    /\ Head(reqs).method = signAPI
    /\ reqs' = Tail(reqs)
    /\ IF accepted
       THEN WriteReply([seq |-> Head(reqs).seq, err |-> "nil",
                        body |-> ProviderSign(Head(reqs).digest)])
       ELSE WriteReply([seq |-> Head(reqs).seq, err |-> ErrSignRejected,
                        body |-> <<>>])
    /\ UNCHANGED <<clientVars, sPc, sExit, sArgc, sConfigFilePath, reaped,
                   sConfig, skey, ppid, wPc, wTimer, sConnClose>>
    /\ UNCHANGED otherVars

\* rpc.ServeConn returns when stdin is at end of file: the codec closes the
\* Connection and drops the result of the close, main returns and the
\* process exits with status 0
SignerStdinEOF(rerr, werr) ==
    /\ sPc = "serve"
    /\ reqs = <<>>
    /\ ~clientAlive \/ wrCloseCalls > 0
    /\ LET t == TransportClose(rerr, werr)
       IN  sConnClose' = [called |-> TRUE, rd |-> t.readCloseCalled,
                          wr |-> t.writeCloseCalled]
    /\ SignerExits("clean")
    /\ UNCHANGED <<clientVars, pipeVars, sArgc, sConfigFilePath, reaped,
                   sConfig, skey, served, ppid>>
    /\ UNCHANGED otherVars

\* the signer is killed from outside (by the user or by the system)
SignerKilled ==
    /\ SignerAlive
    /\ clientAlive
    /\ closePc = "idle"
    /\ SignerExits("killed")
    /\ UNCHANGED <<clientVars, pipeVars, sArgc, sConfigFilePath, reaped,
                   sConfig, skey, served, ppid, sConnClose>>
    /\ UNCHANGED otherVars

-----------------------------------------------------------------------------
(* A Sign request from the caller's SignArgs to the provider *)

\* the request leaves the caller: the codec encodes args, and a failure to
\* encode ends the call before anything is written
SendSignArgs(args) ==
    LET e == EncodeSignArgs(args)
    IN  /\ signArgs' = args
        /\ signDecoded' = NoSignArgs
        /\ IF e.err # "nil"
           THEN /\ signPc' = "done"
                /\ signMsg' = NoSignMsg
                /\ signOut' = [res |-> "encodeError", used |-> NilOpts]
           ELSE /\ signPc' = "sent"
                /\ signMsg' = e.msg
                /\ signOut' = NoSignOut

\* Key.Sign(_, digest, opts) with opts present:
\* client.Call(signAPI, SignArgs{Digest, Hash: opts.HashFunc(), Opts: opts})
KeySignCall(digest, opts) ==
    /\ signPc \in {"idle", "done"}
    /\ SendSignArgs([digest |-> digest, hash |-> HashFunc(opts), opts |-> opts])
    /\ UNCHANGED <<signerBuild, auxVars, sessionVars, cryptVars,
                   libVars, proxyVars>>

\* a Sign request of the older shape, SignArgs{Digest, Hash} with Opts left
\* nil, as a caller built before Opts existed sends it
HashOnlySignCall(digest, hash) ==
    /\ signPc \in {"idle", "done"}
    /\ SendSignArgs([digest |-> digest, hash |-> hash, opts |-> NilOpts])
    /\ UNCHANGED <<signerBuild, auxVars, sessionVars, cryptVars,
                   libVars, proxyVars>>

\* the server reads the request: a body that cannot be decoded is answered
\* with an error and the handler is not called
SignerDecodeSign ==
    /\ signPc = "sent"
    /\ LET d == DecodeSignArgs(signerBuild, signMsg)
       IN  IF d.err # "nil"
           THEN /\ signPc' = "done"
                /\ signOut' = [res |-> "decodeError", used |-> NilOpts]
                /\ UNCHANGED signDecoded
           ELSE /\ signPc' = "decoded"
                /\ signDecoded' = d.args
                /\ UNCHANGED signOut
    /\ signMsg' = NoSignMsg
    /\ UNCHANGED <<signerBuild, signArgs, auxVars, sessionVars, cryptVars,
                   libVars, proxyVars>>

\* EnterpriseCertSigner.Sign(args, resp): k.key.Sign(nil, args.Digest, opts);
\* a panic of the provider in the handler's goroutine ends the signer
EnterpriseCertSignerSign(outcome) ==
    /\ signPc = "decoded"
    /\ LET opts == SignHandlerOpts(signerBuild, signDecoded)
       IN  /\ outcome \in ProviderSignOutcomes(signerBuild, opts)
           /\ signOut' = [res |-> outcome, used |-> opts]
    /\ signPc' = IF outcome = "panic" THEN "crashed" ELSE "done"
    /\ UNCHANGED <<signerBuild, signArgs, signMsg, signDecoded, auxVars, sessionVars,
                   cryptVars, libVars, proxyVars>>

-----------------------------------------------------------------------------
(* Encrypt and Decrypt on one Key *)

\* Encrypt of plaintext with hash. Behind the linux signer the Key sends
\* EncryptArgs{Plaintext, Hash} and EnterpriseCertSigner.Encrypt runs
\* k.key = k.key.WithHash(args.Hash), then k.key.Encrypt(args.Plaintext); the
\* keychain Key stores the hash in k.hash and encrypts with an algorithm of
\* the table the system reports
Encrypt(plaintext, hash, table) ==
    /\ cryptProvider = "pkcs11" => table = "OAEP"
    /\ keyHash' = hash
    /\ cryptArgs' = [plain |-> plaintext, ehash |-> hash, dhash |-> ""]
    /\ cryptCipher' = IF cryptProvider = "pkcs11"
                      THEN Pkcs11Encrypt(plaintext, keyHash')
                      ELSE KeychainEncrypt(plaintext, keyHash', table)
    /\ cryptResult' = NoCryptResult
    /\ cryptPc' = "encrypted"
    /\ UNCHANGED <<cryptProvider, auxVars, sessionVars, signVars, libVars, proxyVars>>

\* Decrypt, with hash, of the ciphertext the last Encrypt returned. Behind
\* the linux signer EnterpriseCertSigner.Decrypt runs
\* k.key = k.key.WithHash(args.Hash), then k.key.Decrypt(args.Ciphertext); the
\* keychain Key stores the hash of the OAEP options in k.hash and decrypts
Decrypt(hash, table) ==
    /\ cryptPc = "encrypted"
    /\ cryptCipher.err = "nil"
    /\ cryptProvider = "pkcs11" => table = "OAEP"
    /\ keyHash' = hash
    /\ cryptArgs' = [cryptArgs EXCEPT !.dhash = hash]
    /\ cryptResult' = IF cryptProvider = "pkcs11"
                      THEN Pkcs11Decrypt(cryptCipher.data, keyHash')
                      ELSE KeychainDecrypt(cryptCipher.data, keyHash', table)
    /\ cryptPc' = "decrypted"
    /\ UNCHANGED <<cryptProvider, cryptCipher, auxVars, sessionVars, signVars, libVars,
                   proxyVars>>

-----------------------------------------------------------------------------
(* The C shared library *)

\* a program calls GetCertPem with a nil certHolder, or with a buffer of
\* holderLen bytes it allocated
CallGetCertPem(holderGiven, holderLen) ==
    /\ ~libRet.panic
    /\ libCall' = [fn |-> "GetCertPem", given |-> holderGiven, len |-> holderLen,
                   data |-> getCertPem(libCred), ok |-> libCred.ok]
    /\ libRet' = GetCertPem(libCred, holderGiven, holderLen)
    /\ libLen' = IF holderGiven THEN libLen
                 ELSE [libLen EXCEPT !["GetCertPem"] = libRet'.ret]
    /\ UNCHANGED <<libCred, auxVars, sessionVars, signVars, cryptVars, proxyVars>>

\* a program calls Sign on a digest with a nil sigHolder, or with a buffer
\* of holderLen bytes it allocated; key.Sign succeeds or fails
CallSign(digest, signOk, holderGiven, holderLen) ==
    /\ ~libRet.panic
    /\ libCall' = [fn |-> "Sign", given |-> holderGiven, len |-> holderLen,
                   data |-> LibSignature(libCred, digest),
                   ok |-> libCred.ok /\ libCred.keyType # "other" /\ signOk]
    /\ libRet' = Sign(libCred, digest, signOk, holderGiven, holderLen)
    /\ libLen' = IF holderGiven THEN libLen
                 ELSE [libLen EXCEPT !["Sign"] = libRet'.ret]
    /\ UNCHANGED <<libCred, auxVars, sessionVars, signVars, cryptVars, proxyVars>>

\* a program calls the SignForPython that does its own signing
CallSignForPython(digest, signOk, holderGiven, holderLen) ==
    /\ ~libRet.panic
    /\ libCall' = [fn |-> "SignForPython", given |-> holderGiven,
                   len |-> holderLen, data |-> LibSignature(libCred, digest),
                   ok |-> libCred.ok /\ libCred.keyType # "other" /\ signOk]
    /\ libRet' = SignForPython(libCred, digest, signOk, holderGiven, holderLen)
    /\ UNCHANGED <<libCred, libLen, auxVars, sessionVars, signVars, cryptVars, proxyVars>>

-----------------------------------------------------------------------------
(* The ECP proxy *)

\* the handler of newProxyHandler without the check of the allowed hosts
ProxyHandlerAnyHost(req, outcome, ecpError) ==
    LET targetHost == HeaderGet(req.targetHost)
    IN  /\ proxyReq' = req
        /\ IF targetHost = EmptyHost
           THEN /\ outcome = "error" /\ ecpError = ""
                /\ proxyOut' = <<>>
                /\ proxyRT' = NoRoundTrip
                /\ proxyResp' = writeError("missing header", "Proxy error",
                                           StatusBadRequest)
           ELSE /\ proxyOut' = <<Director(req)>>
                /\ outcome = "error" => ecpError = ""
                /\ proxyRT' = IF outcome = "error" THEN RoundTripError
                              ELSE [err |-> "nil",
                                    res |-> BackendResponse(outcome, ecpError)]
                /\ proxyResp' =
                      IF proxyRT'.err # "nil"
                      THEN writeError(proxyRT'.err,
                                      "Failed to forward request", StatusBadGateway)
                      ELSE RelayResponse(proxyRT'.res)
        /\ UNCHANGED <<auxVars, sessionVars, signVars, cryptVars, libVars>>

\* the handler newProxyHandler returns serves one request: 400 without a
\* target host, 403 for a host that is not allowed; otherwise the
\* ReverseProxy rewrites the request with its Director, hands it to the
\* transport and relays the response, or answers 502 through its
\* ErrorHandler when the round trip fails
ProxyHandler(req, outcome, ecpError) ==
    LET targetHost == HeaderGet(req.targetHost)
    IN  /\ proxyReq' = req
        /\ IF targetHost = EmptyHost
           THEN /\ outcome = "error" /\ ecpError = ""
                /\ proxyOut' = <<>>
                /\ proxyRT' = NoRoundTrip
                /\ proxyResp' = writeError("missing header", "Proxy error",
                                           StatusBadRequest)
           ELSE IF ~isAllowedHost(targetHost)
           THEN /\ outcome = "error" /\ ecpError = ""
                /\ proxyOut' = <<>>
                /\ proxyRT' = NoRoundTrip
                /\ proxyResp' = writeError("target host is not allowed",
                                           "Proxy error", StatusForbidden)
           ELSE /\ proxyOut' = <<Director(req)>>
                /\ outcome = "error" => ecpError = ""
                /\ proxyRT' = IF outcome = "error" THEN RoundTripError
                              ELSE [err |-> "nil",
                                    res |-> BackendResponse(outcome, ecpError)]
                /\ proxyResp' =
                      IF proxyRT'.err # "nil"
                      THEN writeError(proxyRT'.err,
                                      "Failed to forward request", StatusBadGateway)
                      ELSE RelayResponse(proxyRT'.res)
        /\ UNCHANGED <<auxVars, sessionVars, signVars, cryptVars, libVars>>

\* ECPProxy.ServeHTTP serves one request: 400 without a target host, 403
\* for a host that is not allowed; otherwise it hands a clone of the
\* request to the transport and copies the response to the writer, or
\* answers 502 when the round trip fails
ECPProxyServeHTTP(r, outcome, ecpError) ==
    LET targetHost == HeaderGet(r.targetHost)
    IN  /\ proxyReq' = r
        /\ IF targetHost = EmptyHost
           THEN /\ outcome = "error" /\ ecpError = ""
                /\ proxyOut' = <<>>
                /\ proxyRT' = NoRoundTrip
                /\ proxyResp' = writeError("missing header", "Proxy error",
                                           StatusBadRequest)
           ELSE IF ~isAllowedHost(targetHost)
           THEN /\ outcome = "error" /\ ecpError = ""
                /\ proxyOut' = <<>>
                /\ proxyRT' = NoRoundTrip
                /\ proxyResp' = writeError("target host is not allowed",
                                           "Proxy error", StatusForbidden)
           ELSE /\ proxyOut' = <<CloneOutReq(r)>>
                /\ outcome = "error" => ecpError = ""
                /\ proxyRT' = IF outcome = "error" THEN RoundTripError
                              ELSE [err |-> "nil",
                                    res |-> BackendResponse(outcome, ecpError)]
                /\ proxyResp' =
                      IF proxyRT'.err # "nil"
                      THEN writeError(proxyRT'.err,
                                      "Failed to forward request", StatusBadGateway)
                      ELSE RelayResponse(proxyRT'.res)
        /\ UNCHANGED <<auxVars, sessionVars, signVars, cryptVars, libVars>>

-----------------------------------------------------------------------------
(* The keychain Cred: construction of the certificate chain *)

RECURSIVE SelectNextFirstMatch(_, _)
RECURSIVE SelectNext(_, _)

\* certIn(xc, xcs): some certificate of xcs equals xc
certIn(xc, xcs) == \E i \in 1..Len(xcs) : xc = xcs[i]

\* prev.CheckSignatureFrom(xc) == nil: the key of xc verifies the signature
\* of prev
CheckSignatureFrom(c, parent) == c.signedWith = parent.PublicKey

\* the inner loop that takes the first certificate that matches
SelectNextFirstMatch(i, next) ==
    IF i > Len(allCerts) THEN next
    ELSE LET xc == allCerts[i]
         IN  IF certIn(xc, Append(certs, prev)) THEN SelectNextFirstMatch(i + 1, next)
             ELSE IF /\ prev.RawIssuer = xc.RawSubject
                     /\ CheckSignatureFrom(prev, xc)
                     /\ next = NilCert
                  THEN SelectNextFirstMatch(i + 1, xc)
             ELSE SelectNextFirstMatch(i + 1, next)

\* the inner loop over allCerts from index i on, with prev already appended
\* to certs: a certificate already in the chain is skipped; one whose
\* subject is the issuer of prev and whose key verifies prev replaces next
\* when next is nil or expires earlier
SelectNext(i, next) ==
    IF i > Len(allCerts) THEN next
    ELSE LET xc == allCerts[i]
         IN  IF certIn(xc, Append(certs, prev)) THEN SelectNext(i + 1, next)
             ELSE IF /\ prev.RawIssuer = xc.RawSubject
                     /\ CheckSignatureFrom(prev, xc)
                     /\ (next = NilCert \/ xc.NotAfter > next.NotAfter)
                  THEN SelectNext(i + 1, xc)
             ELSE SelectNext(i + 1, next)

\* one iteration of the loop `for prev = leaf; prev != nil; prev, next =
\* next, nil`: prev is appended and the next certificate selected
CredChainIteration ==
    /\ prev # NilCert
    /\ certs' = Append(certs, prev)
    /\ prev' = SelectNext(1, NilCert)
    /\ UNCHANGED <<allCerts, leaf, componentVars, logVars, kcloseVars, serverVars, userVars, handlerVars>>

-----------------------------------------------------------------------------
(* Close of a keychain Key *)

\* a goroutine that holds the Key calls k.Close(); the finalizer calls it
\* once, when no goroutine holds the Key any more
KeychainKeyClose(c) ==
    /\ kcPc[c] = "idle"
    /\ kcCalls[c] < MaxCloseCalls
    /\ IF c = Finalizer
       THEN /\ kcCalls[c] = 0
            /\ \A g \in KeyHolders : kcPc[g] = "idle"
       ELSE kcCalls[Finalizer] = 0
    /\ kcPc' = [kcPc EXCEPT ![c] = "do"]
    /\ kcCalls' = [kcCalls EXCEPT ![c] = @ + 1]
    /\ UNCHANGED <<onceDone, onceM, kcReturned, released, componentVars, logVars,
                   chainVars, serverVars, userVars, handlerVars>>

\* once.Do: f is not run when done is set
OnceDo(c) ==
    /\ kcPc[c] = "do"
    /\ kcPc' = [kcPc EXCEPT ![c] = IF onceDone THEN "return" ELSE "doSlow"]
    /\ UNCHANGED <<onceDone, onceM, kcCalls, kcReturned, released, componentVars,
                   logVars, chainVars, serverVars, userVars, handlerVars>>

\* doSlow that runs f without looking at done again
OnceDoSlowUnchecked(c) ==
    /\ kcPc[c] = "doSlow"
    /\ onceM = NoCloser
    /\ onceM' = c
    /\ kcPc' = [kcPc EXCEPT ![c] = "releasePrivate"]
    /\ UNCHANGED <<onceDone, kcCalls, kcReturned, released, componentVars, logVars,
                   chainVars, serverVars, userVars, handlerVars>>

\* once.doSlow: takes the mutex; f runs only if done is still unset,
\* otherwise the mutex is given back
OnceDoSlow(c) ==
    /\ kcPc[c] = "doSlow"
    /\ onceM = NoCloser
    /\ IF onceDone
       THEN /\ kcPc' = [kcPc EXCEPT ![c] = "return"]
            /\ UNCHANGED onceM
       ELSE /\ kcPc' = [kcPc EXCEPT ![c] = "releasePrivate"]
            /\ onceM' = c
    /\ UNCHANGED <<onceDone, kcCalls, kcReturned, released, componentVars, logVars,
                   chainVars, serverVars, userVars, handlerVars>>

\* C.CFRelease(C.CFTypeRef(k.privateKeyRef))
CFReleasePrivateKeyRef(c) ==
    /\ kcPc[c] = "releasePrivate"
    /\ released' = [released EXCEPT !.privateKeyRef = @ + 1]
    /\ kcPc' = [kcPc EXCEPT ![c] = "releasePublic"]
    /\ UNCHANGED <<onceDone, onceM, kcCalls, kcReturned, componentVars, logVars,
                   chainVars, serverVars, userVars, handlerVars>>

\* C.CFRelease(C.CFTypeRef(k.publicKeyRef))
CFReleasePublicKeyRef(c) ==
    /\ kcPc[c] = "releasePublic"
    /\ released' = [released EXCEPT !.publicKeyRef = @ + 1]
    /\ kcPc' = [kcPc EXCEPT ![c] = "store"]
    /\ UNCHANGED <<onceDone, onceM, kcCalls, kcReturned, componentVars, logVars,
                   chainVars, serverVars, userVars, handlerVars>>

\* the deferred calls of doSlow: done is set, the mutex given back
OnceDone(c) ==
    /\ kcPc[c] = "store"
    /\ onceDone' = TRUE
    /\ onceM' = NoCloser
    /\ kcPc' = [kcPc EXCEPT ![c] = "return"]
    /\ UNCHANGED <<kcCalls, kcReturned, released, componentVars, logVars,
                   chainVars, serverVars, userVars, handlerVars>>

\* Close returns nil
KeychainKeyCloseReturn(c) ==
    /\ kcPc[c] = "return"
    /\ kcReturned' = [kcReturned EXCEPT ![c] = Append(@, "nil")]
    /\ kcPc' = [kcPc EXCEPT ![c] = "idle"]
    /\ UNCHANGED <<onceDone, onceM, kcCalls, released, componentVars, logVars,
                   chainVars, serverVars, userVars, handlerVars>>

-----------------------------------------------------------------------------
(* runServer of the ECP proxy *)

\* runServer creates the server and the channel, starts the goroutine of
\* ListenAndServe and waits in the select
RunServerStart ==
    /\ rsPc = "init"
    /\ rsPc' = "select"
    /\ goPc' = "listen"
    /\ UNCHANGED <<rsRet, goErr, errChan, ctxDone, accepting, inShutdown, conns,
                   elapsed, componentVars, logVars, chainVars, kcloseVars, userVars, handlerVars>>

\* server.ListenAndServe opens the listener, or fails to; after Shutdown it
\* returns http.ErrServerClosed at once, which the goroutine does not send
ListenAndServe(ok) ==
    /\ goPc = "listen"
    /\ IF inShutdown
       THEN /\ ok
            /\ goPc' = "exited"
            /\ goErr' = "http: Server closed"
            /\ UNCHANGED <<errChan, accepting>>
       ELSE IF ok
       THEN /\ goPc' = "serving"
            /\ accepting' = TRUE
            /\ UNCHANGED <<goErr, errChan>>
       ELSE /\ goPc' = "exited"
            /\ goErr' = "listen: address already in use"
            /\ errChan' = Append(errChan, ErrStartFailed)
            /\ UNCHANGED accepting
    /\ UNCHANGED <<rsPc, rsRet, ctxDone, inShutdown, conns, elapsed,
                   componentVars, logVars, chainVars, kcloseVars, userVars, handlerVars>>

\* the accept loop of the server ends: with http.ErrServerClosed after
\* Shutdown, which is not sent, or with an accept error, which closes the
\* listener and is sent
ServeReturns ==
    /\ goPc = "serving"
    /\ goPc' = "exited"
    /\ accepting' = FALSE
    /\ IF inShutdown
       THEN /\ goErr' = "http: Server closed"
            /\ UNCHANGED errChan
       ELSE /\ goErr' = "accept: too many open files"
            /\ errChan' = Append(errChan, ErrStartFailed)
    /\ UNCHANGED <<rsPc, rsRet, ctxDone, inShutdown, conns, elapsed,
                   componentVars, logVars, chainVars, kcloseVars, userVars, handlerVars>>

\* the server accepts a connection
ServerAccept ==
    /\ accepting
    /\ goPc = "serving"
    /\ conns < MaxConns
    /\ conns' = conns + 1
    /\ UNCHANGED <<rsPc, rsRet, goPc, goErr, errChan, ctxDone, accepting,
                   inShutdown, elapsed, componentVars, logVars, chainVars,
                   kcloseVars, userVars, handlerVars>>

\* a connection becomes idle and is closed
ConnClosed ==
    /\ conns > 0
    /\ conns' = conns - 1
    /\ UNCHANGED <<rsPc, rsRet, goPc, goErr, errChan, ctxDone, accepting,
                   inShutdown, elapsed, componentVars, logVars, chainVars,
                   kcloseVars, userVars, handlerVars>>

\* SIGINT or SIGTERM cancels the context
CtxCancel ==
    /\ rsPc # "returned"
    /\ ~ctxDone
    /\ ctxDone' = TRUE
    /\ UNCHANGED <<rsPc, rsRet, goPc, goErr, errChan, accepting, inShutdown,
                   conns, elapsed, componentVars, logVars, chainVars, kcloseVars, userVars, handlerVars>>

\* select, case err := <-errChan: runServer returns the error
SelectErrChan ==
    /\ rsPc = "select"
    /\ errChan # <<>>
    /\ rsRet' = Head(errChan)
    /\ errChan' = Tail(errChan)
    /\ rsPc' = "returned"
    /\ UNCHANGED <<goPc, goErr, ctxDone, accepting, inShutdown, conns, elapsed,
                   componentVars, logVars, chainVars, kcloseVars, userVars, handlerVars>>

\* the case <-ctx.Done() that returns nil without shutting the server down
SelectCtxDoneNoShutdown ==
    /\ rsPc = "select"
    /\ ctxDone
    /\ rsPc' = "returned"
    /\ rsRet' = "nil"
    /\ UNCHANGED <<goPc, goErr, errChan, ctxDone, accepting, inShutdown, conns,
                   elapsed, componentVars, logVars, chainVars, kcloseVars, userVars, handlerVars>>

\* select, case <-ctx.Done(): server.Shutdown is called with a context of
\* ShutdownTimeout; it closes the listener first
SelectCtxDone ==
    /\ rsPc = "select"
    /\ ctxDone
    /\ rsPc' = "shutdown"
    /\ inShutdown' = TRUE
    /\ accepting' = FALSE
    /\ elapsed' = 0
    /\ UNCHANGED <<rsRet, goPc, goErr, errChan, ctxDone, conns, componentVars,
                   logVars, chainVars, kcloseVars, userVars, handlerVars>>

\* a second of the shutdown context passes while Shutdown waits for the
\* connections
ShutdownTick ==
    /\ rsPc = "shutdown"
    /\ conns > 0
    /\ elapsed < defaultShutdownTimeout
    /\ elapsed' = elapsed + 1
    /\ UNCHANGED <<rsPc, rsRet, goPc, goErr, errChan, ctxDone, accepting,
                   inShutdown, conns, componentVars, logVars, chainVars,
                   kcloseVars, userVars, handlerVars>>

\* server.Shutdown returns nil once no connection is active, or the error
\* of its context when ShutdownTimeout has passed; runServer returns nil or
\* the wrapped error
ShutdownReturns ==
    /\ rsPc = "shutdown"
    /\ conns = 0 \/ elapsed = defaultShutdownTimeout
    /\ rsRet' = IF conns = 0 THEN "nil" ELSE ErrShutdownFailed
    /\ rsPc' = "returned"
    /\ UNCHANGED <<goPc, goErr, errChan, ctxDone, accepting, inShutdown, conns,
                   elapsed, componentVars, logVars, chainVars, kcloseVars, userVars, handlerVars>>

-----------------------------------------------------------------------------
(* Functions that obtain a Key from Cred *)

\* the deferred calls of a function run when it returns and when a panic
\* unwinds it, not when os.Exit ends the process
RunsDeferred(ends) == ends \in {"return", "panic"}

\* the process ends when a panic reaches the top of a goroutine, at os.Exit,
\* and when main returns
EndsProcess(isMain, ends) == isMain \/ ends \in {"panic", "os.Exit"}

\* a function calls Cred; when Cred fails it returns without a Key; else it
\* takes one of its paths, and Key.Close is called if calledClose
KeyUse(fn, isMain, credOk, p, calledClose) ==
    /\ ~userExited
    /\ userCalls < MaxKeyUses
    /\ userCalls' = userCalls + 1
    /\ userLast' = [fn |-> fn, credOk |-> credOk,
                    path |-> IF credOk THEN p.path ELSE "Cred failed",
                    closed |-> credOk /\ calledClose]
    /\ keysOpened' = IF credOk THEN keysOpened + 1 ELSE keysOpened
    /\ keysClosed' = IF credOk /\ calledClose THEN keysClosed + 1 ELSE keysClosed
    /\ userExited' = IF credOk THEN EndsProcess(isMain, p.ends) ELSE isMain
    /\ UNCHANGED <<componentVars, logVars, chainVars, kcloseVars, serverVars, handlerVars>>

\* getCertPem of the shared library: defer key.Close() right after Cred
LibGetCertPem(credOk) ==
    KeyUse("getCertPem", FALSE, credOk,
           [path |-> "chain encoded", ends |-> "return"], RunsDeferred("return"))

\* Sign of the shared library: Close is deferred right after Cred
LibSign(credOk, p) == KeyUse("Sign", FALSE, credOk, p, RunsDeferred(p.ends))

\* GetKeyType of the shared library: Close is deferred right after Cred
LibGetKeyType(credOk, p) ==
    KeyUse("GetKeyType", FALSE, credOk, p, RunsDeferred(p.ends))

\* run and main of the ECP proxy: run defers key.Close() right after Cred
\* and returns on every path; main calls log.Fatalf only after run returned
ProxyRun(credOk, p) == KeyUse("run", TRUE, credOk, p, RunsDeferred(p.ends))

\* main and runProxyWrapper of the ECP proxy with the shutdown channel: main
\* defers key.Close() and calls runProxyWrapper, which calls log.Fatalf
\* when ListenAndServe fails
ProxyMainWrapper(credOk, p) ==
    KeyUse("runProxyWrapper", TRUE, credOk, p, RunsDeferred(p.ends))

-----------------------------------------------------------------------------
(* The handlers of the linux signer, each request in its own goroutine *)

\* the server reads a request from the connection and starts a goroutine
\* that calls the handler of its method
ServeRequest(r, method, hash) ==
    /\ hReq[r].pc = "none"
    /\ hReq' = [hReq EXCEPT ![r] = [method |-> method, hash |-> hash,
                                    pc |-> "called", used |-> ""]]
    /\ UNCHANGED <<componentVars, logVars, chainVars, kcloseVars, serverVars,
                   userVars>>

\* Encrypt and Decrypt, first statement: k.key = k.key.WithHash(args.Hash)
\* stores the Key with the hash of the request in the signer
HandlerWithHash(r) ==
    /\ hReq[r].pc = "called"
    /\ hReq[r].method \in {"Encrypt", "Decrypt"}
    /\ keyHash' = hReq[r].hash
    /\ hReq' = [hReq EXCEPT ![r].pc = "hashed"]
    /\ UNCHANGED <<cryptProvider, cryptPc, cryptArgs, cryptCipher, cryptResult,
                   sessionVars, signVars, libVars, proxyVars, logVars, chainVars,
                   kcloseVars, serverVars, userVars>>

\* Encrypt and Decrypt, second statement: k.key.Encrypt(args.Plaintext) or
\* k.key.Decrypt(args.Ciphertext) on the Key the signer holds now
HandlerCrypt(r) ==
    /\ hReq[r].pc = "hashed"
    /\ hReq' = [hReq EXCEPT ![r].pc = "done", ![r].used = keyHash]
    /\ UNCHANGED <<componentVars, logVars, chainVars, kcloseVars, serverVars,
                   userVars>>

\* Sign: k.key.Sign(nil, args.Digest, args.Opts) signs with the hash of the
\* options of the request
HandlerSign(r) ==
    /\ hReq[r].pc = "called"
    /\ hReq[r].method = "Sign"
    /\ hReq' = [hReq EXCEPT ![r].pc = "done",
                            ![r].used = HashFunc(HashOpts(hReq[r].hash))]
    /\ UNCHANGED <<componentVars, logVars, chainVars, kcloseVars, serverVars,
                   userVars>>

-----------------------------------------------------------------------------
(* Package utils: logging *)

\* stdLogger.Printf / Println: one line on stderr
LoggerPrint(output, level, msg) == Append(output, <<level, msg>>)

\* Errorf, Warnf, Infof, Debugf, Debugln: the line is written only when
\* logging is enabled, and the function returns
LogPrint(fn, level, msg) ==
    /\ logRuns
    /\ logCalls < MaxLogCalls
    /\ logCalls' = logCalls + 1
    /\ logOutput' = IF isEcpLogEnabled THEN LoggerPrint(logOutput, level, msg)
                    ELSE logOutput
    /\ logLast' = [fn |-> fn, returned |-> TRUE]
    /\ UNCHANGED <<isEcpLogEnabled, logRuns, logExit, componentVars, chainVars,
                   kcloseVars, serverVars, userVars, handlerVars>>

Errorf(msg) == LogPrint("Errorf", "[ERROR]", msg)
Warnf(msg) == LogPrint("Warnf", "[WARN]", msg)
Infof(msg) == LogPrint("Infof", "[INFO]", msg)
Debugf(msg) == LogPrint("Debugf", "[DEBUG]", msg)
Debugln(msg) == LogPrint("Debugln", "[DEBUG]", msg)

\* Fatalf, Fatalln: with logging enabled stdLogger.Fatalf writes the line
\* and calls os.Exit(1); with logging disabled nothing is written and the
\* function returns to its caller
LogFatal(fn, msg) ==
    /\ logRuns
    /\ logCalls < MaxLogCalls
    /\ logCalls' = logCalls + 1
    /\ IF isEcpLogEnabled
       THEN /\ logOutput' = LoggerPrint(logOutput, "[FATAL]", msg)
            /\ logRuns' = FALSE
            /\ logExit' = 1
            /\ logLast' = [fn |-> fn, returned |-> FALSE]
       ELSE /\ logLast' = [fn |-> fn, returned |-> TRUE]
            /\ UNCHANGED <<logOutput, logRuns, logExit>>
    /\ UNCHANGED <<isEcpLogEnabled, componentVars, chainVars, kcloseVars, serverVars, userVars, handlerVars>>

Fatalf(msg) == LogFatal("Fatalf", msg)
Fatalln(msg) == LogFatal("Fatalln", msg)

-----------------------------------------------------------------------------
(* Specifications *)

Next ==
    \/ \E arg \in {NoPath, ExplicitPath}, env \in {NoPath, EnvPath},
          cfg \in Configs, homeOk, pipesOk \in BOOLEAN :
             CredStart(arg, env, cfg, homeOk, pipesOk)
    \/ CredChainReturned
    \/ CredPublicReturned
    \/ ClientInput
    \/ ClientInputError
    \/ \E c \in Users, d \in Digests, o \in OptsValues : KeySign(c, d, o)
    \/ \E rerr \in ReadCloseResults, werr \in WriteCloseResults :
          KeyCloseConn(rerr, werr)
    \/ \E kr \in {"nil", ErrProcessDone, "panic"} : KeyCloseKill(kr)
    \/ KeyCloseWait
    \/ ParentDies
    \/ \E argc \in 1..MaxArgc : SignerInvoked(argc)
    \/ SignerCheckArgs
    \/ \E ok, checked \in BOOLEAN : SignerLoadConfig(ok, checked)
    \/ \E token \in Tokens, slotOk \in BOOLEAN : SignerCred(token, slotOk)
    \/ SignerRegister
    \/ WatchdogCheck
    \/ WatchdogSleep
    \/ ServeCertificateChain
    \/ ServePublic
    \/ \E accepted \in BOOLEAN : ServeSign(accepted)
    \/ \E rerr \in ReadCloseResults, werr \in WriteCloseResults :
          SignerStdinEOF(rerr, werr)
    \/ SignerKilled

Spec == Init /\ [][Next]_vars

\* the goroutines of a living signer are scheduled: main proceeds through its
\* startup and the watchdog loop keeps running
SignerFairness ==
    /\ WF_vars(SignerCheckArgs)
    /\ WF_vars(\E ok, checked \in BOOLEAN : SignerLoadConfig(ok, checked))
    /\ WF_vars(\E token \in Tokens, slotOk \in BOOLEAN : SignerCred(token, slotOk))
    /\ WF_vars(SignerRegister)
    /\ WF_vars(WatchdogCheck)
    /\ WF_vars(WatchdogSleep)

LiveSpec == Spec /\ SignerFairness

\* Sign requests of every shape, served by a signer of each build
SignInit ==
    /\ InitSession
    /\ signerBuild \in SignerBuilds
    /\ InitSign
    /\ cryptProvider = "pkcs11"
    /\ InitCrypt
    /\ libCred = [ok |-> FALSE, chain |-> <<>>, keyType |-> "other"]
    /\ InitLib
    /\ InitProxy
    /\ InitAux

SignNext ==
    \/ \E d \in Digests, o \in SignerOptsValues : KeySignCall(d, o)
    \/ \E d \in Digests, h \in Hashes : HashOnlySignCall(d, h)
    \/ SignerDecodeSign
    \/ \E outcome \in {"signature", "error", "panic"} :
          EnterpriseCertSignerSign(outcome)

SignSpec == SignInit /\ [][SignNext]_vars

\* Encrypt and Decrypt calls on a Key of each provider
CryptInit ==
    /\ InitSession
    /\ signerBuild = "linux"
    /\ InitSign
    /\ cryptProvider \in CryptProviders
    /\ InitCrypt
    /\ libCred = [ok |-> FALSE, chain |-> <<>>, keyType |-> "other"]
    /\ InitLib
    /\ InitProxy
    /\ InitAux

CryptNext ==
    \/ \E p \in BytesUpTo(MaxPlainLen), h \in Hashes, t \in TableChoices :
          Encrypt(p, h, t)
    \/ \E h \in Hashes, t \in TableChoices : Decrypt(h, t)

CryptSpec == CryptInit /\ [][CryptNext]_vars

\* calls of the entry points of the shared library, for each credential
LibInit ==
    /\ InitSession
    /\ signerBuild = "linux"
    /\ InitSign
    /\ cryptProvider = "pkcs11"
    /\ InitCrypt
    /\ libCred \in LibCreds
    /\ InitLib
    /\ InitProxy
    /\ InitAux

LibNext ==
    \/ \E g \in BOOLEAN, n \in 0..MaxHolderLen : CallGetCertPem(g, n)
    \/ \E d \in Digests, ok, g \in BOOLEAN, n \in 0..MaxHolderLen :
          CallSign(d, ok, g, n)
    \/ \E d \in Digests, ok, g \in BOOLEAN, n \in 0..MaxHolderLen :
          CallSignForPython(d, ok, g, n)

LibSpec == LibInit /\ [][LibNext]_vars

\* the keychain Cred builds the chain of a leaf from the certificates of a
\* keychain; each iteration of the loop is taken once it is enabled
ChainInit ==
    /\ InitComponents
    /\ isEcpLogEnabled = FALSE
    /\ InitLog
    /\ allCerts \in UNION {[1..n -> KeychainCerts] : n \in 0..MaxKeychainCerts}
    /\ leaf \in KeychainCerts
    /\ certs = <<>>
    /\ prev = leaf
    /\ InitKeychainKey
    /\ InitServer
    /\ InitUser
    /\ InitHandlers

ChainNext == CredChainIteration

ChainSpec == ChainInit /\ [][ChainNext]_vars /\ WF_vars(ChainNext)

\* a process that calls the functions of the shared library, or is one of
\* the ECP proxies
UserNext ==
    \/ \E credOk \in BOOLEAN : LibGetCertPem(credOk)
    \/ \E credOk \in BOOLEAN, p \in SignPaths : LibSign(credOk, p)
    \/ \E credOk \in BOOLEAN, p \in GetKeyTypePaths : LibGetKeyType(credOk, p)
    \/ \E credOk \in BOOLEAN, p \in RunPaths : ProxyRun(credOk, p)
    \/ \E credOk \in BOOLEAN, p \in RunProxyWrapperPaths :
          ProxyMainWrapper(credOk, p)

UserSpec == Init /\ [][UserNext]_vars

\* the linux signer serves the requests of one connection
HandlerInit ==
    /\ InitSession
    /\ signerBuild = "linux"
    /\ InitSign
    /\ cryptProvider = "pkcs11"
    /\ InitCrypt
    /\ libCred = [ok |-> FALSE, chain |-> <<>>, keyType |-> "other"]
    /\ InitLib
    /\ InitProxy
    /\ InitAux

HandlerNext ==
    \E r \in RequestIds :
        \/ \E method \in HandlerMethods, hash \in Hashes :
              ServeRequest(r, method, hash)
        \/ HandlerWithHash(r)
        \/ HandlerCrypt(r)
        \/ HandlerSign(r)

HandlerSpec == HandlerInit /\ [][HandlerNext]_vars

\* runServer, its server and the signal that cancels its context
ServerNext ==
    \/ RunServerStart
    \/ \E ok \in BOOLEAN : ListenAndServe(ok)
    \/ ServeReturns
    \/ ServerAccept
    \/ ConnClosed
    \/ CtxCancel
    \/ SelectErrChan
    \/ SelectCtxDone
    \/ ShutdownTick
    \/ ShutdownReturns

ServerSpec == Init /\ [][ServerNext]_vars

\* goroutines and the finalizer call Close on one keychain Key
KeychainCloseNext ==
    \E c \in KeychainClosers :
        \/ KeychainKeyClose(c)
        \/ OnceDo(c)
        \/ OnceDoSlow(c)
        \/ CFReleasePrivateKeyRef(c)
        \/ CFReleasePublicKeyRef(c)
        \/ OnceDone(c)
        \/ KeychainKeyCloseReturn(c)

KeychainCloseSpec == Init /\ [][KeychainCloseNext]_vars

\* a program that logs through package utils, with logging enabled or not
LogInit ==
    /\ InitComponents
    /\ isEcpLogEnabled \in BOOLEAN
    /\ InitLog
    /\ InitChain
    /\ InitKeychainKey
    /\ InitServer
    /\ InitUser
    /\ InitHandlers

LogNext ==
    \E msg \in LogMessages :
        \/ Errorf(msg)
        \/ Warnf(msg)
        \/ Infof(msg)
        \/ Debugf(msg)
        \/ Debugln(msg)
        \/ Fatalf(msg)
        \/ Fatalln(msg)

LogSpec == LogInit /\ [][LogNext]_vars

\* requests served by the handler of the ECP proxy
ProxyNext ==
    \E req \in ProxyRequests, outcome \in TransportOutcomes,
       ecpError \in BackendErrorHeaders :
        \/ ProxyHandler(req, outcome, ecpError)
        \/ ECPProxyServeHTTP(req, outcome, ecpError)

ProxySpec == Init /\ [][ProxyNext]_vars

-----------------------------------------------------------------------------
(* Properties of Key.Close *)

CloseStepsAll == {"conn", "kill", "wait"}

\* C1: every Key.Close that has returned attempted all three cleanup steps:
\* closing the RPC connection, killing the subprocess, waiting for it
C1_CloseAttemptsAllSteps ==
    closePc = "returned" => closeSteps = CloseStepsAll

\* C2: when Key.Close was called exactly once and has returned, the signer
\* subprocess has been waited on
C2_CloseOnceReapsSigner ==
    (closeCalls = 1 /\ closePc = "returned") => reaped

\* values Key.Close returns
CloseErrors ==
    {"nil", "Closing RPC connection", "Killing signer process", "signal: killed",
     "exit status", "exec: Wait was already called"}

\* C8: Key.Close never panics; called on a Key whose subprocess has already
\* exited or whose pipes are already closed it returns an ordinary error
\* value (non-nil when the pipes were closed before), and its wait for the
\* subprocess is never entered while the subprocess still runs
C8_CloseNeverPanics ==
    /\ closePc # "panicked"
    /\ closePc = "wait" => sPc = "exited"
    /\ (closePc = "returned" /\ (closePre.exited \/ closePre.pipesClosed))
          => closeErr \in CloseErrors
    /\ (closePc = "returned" /\ closePre.pipesClosed) => closeErr # "nil"

\* a Close on a Key whose signer had exited before the call has returned
C8_Witness ==
    /\ closePc = "returned"
    /\ closePre.exited
    /\ "kill" \in closeSteps

-----------------------------------------------------------------------------
(* Properties of Cred *)

CredStepOrder == <<"start", "chain", "public", "parse">>

\* the error Cred returns when the step fails
CredStepError(step) ==
    CASE step = "start" -> "starting enterprise cert signer subprocess"
      [] step = "chain" -> "CertificateChain RPC"
      [] step = "public" -> "Public RPC"
      [] OTHER -> "parsing public key from enterprise cert signer"

\* C3: Cred performs start, CertificateChain RPC, Public RPC, decode in this
\* order; when it fails, the step it names in its error is the last step it
\* performed and no Key is returned; a Key is returned only after all four
\* steps, the last two having succeeded
C3_CredStopsAtFirstFailure ==
    /\ Len(credSteps) <= Len(CredStepOrder)
    /\ credSteps = SubSeq(CredStepOrder, 1, Len(credSteps))
    /\ credPc = "failed" =>
          /\ ~keyReturned
          /\ credSteps # <<>> => credErr = CredStepError(credSteps[Len(credSteps)])
          /\ credSteps = <<>> => credErr \notin {CredStepError(st) : st \in
                                     {"start", "chain", "public", "parse"}}
    /\ keyReturned =>
          /\ credPc = "done"
          /\ credSteps = CredStepOrder
          /\ calls[CredCaller].err = "nil"
          /\ ParsePKIXPublicKey(calls[CredCaller].reply).err = "nil"

\* Cred failed at the decode of the public key bytes, after both RPCs
C3_Witness ==
    /\ credPc = "failed"
    /\ credErr = CredStepError("parse")
    /\ credSteps = CredStepOrder

\* C28: when Cred fails after it started the signer (at the CertificateChain
\* RPC, the Public RPC or the decode of the public key), the client has
\* closed both of its pipe ends and the signer has exited and been reaped
\* by the time Cred has returned
C28_FailedCredLeavesNoSigner ==
    (/\ clientAlive
     /\ credPc = "failed"
     /\ credErr \in {CredStepError(st) : st \in {"chain", "public", "parse"}}) =>
        /\ rdCloseCalls > 0 /\ wrCloseCalls > 0
        /\ ~SignerAlive
        /\ reaped

\* C5: the chain of a returned Key is non-empty and the public key embedded
\* in its first certificate is the Key's public key
C5_ChainMatchesPublicKey ==
    keyReturned => /\ Len(chain) > 0
                   /\ CertPublicKey(chain[1]) = publicKey

-----------------------------------------------------------------------------
(* Properties of Cred's config handling *)

C15_MalformedConfigPropagates ==
    credCfg.file = "malformed" =>
        /\ credPc = "failed"
        /\ credErr = ErrJSONSyntax
        /\ credErr # ErrConfigUnavailable
        /\ credSteps = <<>>
        /\ ~keyReturned
        /\ sPc = "none"

\* Cred, called without a path, failed on the malformed config the
\* environment points at
C15_Witness ==
    /\ credCfg.file = "malformed"
    /\ credCfg.arg = NoPath
    /\ credCfg.env = EnvPath
    /\ credPc = "failed"
    /\ credErr = ErrJSONSyntax

-----------------------------------------------------------------------------
(* Properties of the RPC session *)

\* sequence numbers of the calls on the wire: requests the signer has not
\* read and replies the client has not read
InFlight ==
    {reqs[i].seq : i \in 1..Len(reqs)} \cup {resps[i].seq : i \in 1..Len(resps)}

\* C4 as stated: at most one call of a Key is outstanding at any time
C4_NoPipelining ==
    Cardinality(Outstanding) <= 1

\* C4 amended: while the connection is up, every call on the wire belongs to
\* a caller that is still blocked in that call, so no caller issues a call
\* before its previous one was answered; calls of different callers may be
\* outstanding together
C4_CallerBlocksUntilReply ==
    (ClientRuns /\ ~shutdown) =>
        /\ \A n \in InFlight :
              \E c \in Outstanding : calls[c].seq = n
        /\ \A c, d \in Outstanding : calls[c].seq = calls[d].seq => c = d

\* two callers each have a Sign call outstanding
C4_Witness ==
    /\ Cardinality(Outstanding) = 2
    /\ Len(reqs) = 2

\* C6: a Sign call with absent opts is issued (it does not panic) and, when
\* the signer answers it without error, returns the bytes the signer made
\* for its digest
C6_SignNilOptsReturnsReply ==
    \A c \in Users :
        (calls[c].method = signAPI /\ calls[c].opts = NilOpts) =>
            /\ calls[c].pc # "panicked"
            /\ (calls[c].pc = "done" /\ calls[c].err = "nil") =>
                  calls[c].reply = ProviderSign(calls[c].digest)

\* C7: the step in which a Sign call returns the error of the signer changes
\* nothing else: the connection stays open, the subprocess and the cached
\* chain and public key are untouched, and no request is written again
C7_SignErrorIsLocal ==
    [][\A c \in Users :
          (calls[c].pc = "waiting" /\ calls'[c].pc = "done"
             /\ calls'[c].err = ErrSignRejected) =>
                /\ ~closing' /\ ~shutdown'
                /\ rdCloseCalls' = 0 /\ wrCloseCalls' = 0
                /\ <<sPc, sExit, reaped>>' = <<sPc, sExit, reaped>>
                /\ <<chain, publicKey>>' = <<chain, publicKey>>
                /\ <<reqs, seq>>' = <<reqs, seq>>]_vars

\* a Sign was rejected by the signer and a Sign with a later sequence number
\* on the same connection has succeeded
C7_Witness ==
    \E a, b \in Users :
        /\ calls[a].pc = "done" /\ calls[a].err = ErrSignRejected
        /\ calls[b].pc = "done" /\ calls[b].err = "nil"
        /\ calls[b].method = signAPI
        /\ calls[b].seq > calls[a].seq
        /\ ~closing /\ ~shutdown

-----------------------------------------------------------------------------
(* Properties of Transport.Close and Connection.Close *)

\* one Close closed both ends and returned the read-side error if there was
\* one, else the write-side error
ClosedBothEnds(cl) ==
    cl.called =>
        /\ cl.rd /\ cl.wr
        /\ cl.err = IF cl.rerr # "nil" THEN cl.rerr ELSE cl.werr
        /\ cl.err = "nil" <=> (cl.rerr = "nil" /\ cl.werr = "nil")

\* the result of the Close both sides share, for every pair of results of the
\* two stream closes
CloseResultIsFirstError ==
    \A rerr \in ReadCloseResults, werr \in WriteCloseResults :
        LET t == TransportClose(rerr, werr)
        IN  /\ t.readCloseCalled /\ t.writeCloseCalled
            /\ t.err = IF rerr # "nil" THEN rerr ELSE werr
            /\ t.err = "nil" <=> (rerr = "nil" /\ werr = "nil")

\* C9: Transport.Close of the client and Connection.Close of the signer
\* call Close on both streams whatever either returns, and return the
\* read-side error if non-nil, otherwise the write-side error
C9_CloseClosesBothStreams ==
    /\ ClosedBothEnds(lastClose)
    /\ sConnClose.called => (sConnClose.rd /\ sConnClose.wr)
    /\ CloseResultIsFirstError
    /\ lastClose.called => (rdCloseCalls = 1 /\ wrCloseCalls = 1)

\* both closes of the client's Transport failed
C9_Witness ==
    /\ lastClose.called
    /\ lastClose.rerr # "nil"
    /\ lastClose.werr # "nil"
    /\ wrCloseCalls = 1

-----------------------------------------------------------------------------
(* Properties of the watchdog *)

-----------------------------------------------------------------------------
(* Properties of the signer's startup *)

\* the signer ended in main before it resolved a key
StartupFailed ==
    /\ sPc = "exited"
    /\ sExit \in {"fatal", "panic"}
    /\ skey.pub = NoKey

C12_WrongArgcIsFatal ==
    /\ [](sArgc \notin {0, RequiredArgs} =>
            /\ sPc \in {"args", "exited"}
            /\ sConfig = "none"
            /\ skey.pub = NoKey
            /\ served = 0
            /\ wPc = "off")
    /\ [][(sPc = "args" /\ sArgc # RequiredArgs /\ sPc' # sPc
             /\ sExit' # "killed") =>
               (sPc' = "exited" /\ sExit' = "fatal")]_vars

\* a signer started with two arguments after the program name has exited
\* fatally
C12_Witness ==
    /\ sArgc = RequiredArgs + 1
    /\ sPc = "exited"
    /\ sExit = "fatal"

-----------------------------------------------------------------------------
(* Properties of the Sign handler *)

\* C16: a Sign request that reached the handler is signed with its Opts
\* when Opts is present and with its Hash when Opts is absent, and the
\* handler does not bring the signer down
C16_SignFallsBackToHash ==
    signOut.res \in {"signature", "error", "panic"} =>
        /\ signOut.res # "panic"
        /\ signOut.used = IF signArgs.opts # NilOpts THEN signArgs.opts
                          ELSE HashOpts(signArgs.hash)

\* C17: a hash identifier or PSS options value placed in SignArgs.Opts is
\* encoded and decoded without error, and the signer decodes a value of the
\* same concrete type with the same parameters
C17_OptsCrossRPCUnchanged ==
    signArgs.opts # NilOpts =>
        /\ signOut.res \notin {"encodeError", "decodeError"}
        /\ signPc \in {"decoded", "done", "crashed"} =>
              signDecoded.opts = signArgs.opts

\* PSS options with parameters no init() names were decoded by a signer as
\* the PSS options sent
C17_Witness ==
    /\ signPc = "decoded"
    /\ signArgs.opts = PSSOpts("equalsHash", "SHA384")
    /\ signDecoded.opts = PSSOpts("equalsHash", "SHA384")

-----------------------------------------------------------------------------
(* Properties of Encrypt and Decrypt *)

-----------------------------------------------------------------------------
(* Properties of the C shared library *)

\* a call that had data to deliver and no buffer returned the length of the
\* data and wrote nothing
LengthPhase ==
    (libCall.ok /\ ~libCall.given) =>
        libRet.ret = Len(libCall.data) /\ libRet.buf = <<>>

\* a call that had data to deliver and a buffer of the length the call
\* without a buffer had returned filled the buffer with the data and
\* returned that length
FillPhase ==
    (libCall.ok /\ libCall.given /\ libCall.len = Len(libCall.data)) =>
        libRet.buf = libCall.data /\ libRet.ret = Len(libCall.data)

\* C19: GetCertPem and Sign both answer a call without a buffer with the
\* required length, writing nothing, and fill a buffer of that length with
\* the data, returning the same length
C19_TwoPhaseProtocol ==
    libCall.fn \in LibEntryPoints => LengthPhase /\ FillPhase

\* C19, amended: GetCertPem does so; Sign fills a buffer of the length of
\* the signature and returns that length, but a call of Sign without a
\* buffer never tells the length: it returns 0 and writes nothing when told
\* a buffer length shorter than the signature, and panics otherwise
C19_TwoPhaseGetCertPemOnly ==
    /\ libCall.fn = "GetCertPem" => LengthPhase /\ FillPhase /\ ~libRet.panic
    /\ libCall.fn = "Sign" =>
          /\ FillPhase
          /\ libCall.given => ~libRet.panic
          /\ ~libCall.given =>
                /\ libRet.ret = 0 /\ libRet.buf = <<>>
                /\ libRet.panic <=> (libCall.ok /\ libCall.len >= Len(libCall.data))

\* GetCertPem told the length of a chain of two certificates and then
\* filled a buffer of that length
C19_Witness ==
    /\ libCall.fn = "GetCertPem"
    /\ libCall.given
    /\ Len(libCred.chain) = 2
    /\ libLen["GetCertPem"] = Len(libCall.data)
    /\ libCall.len = libLen["GetCertPem"]
    /\ libRet.buf = libCall.data
    /\ libRet.ret = libCall.len

\* C23: the signing entry point never writes past sigHolderLen bytes of
\* the caller's buffer: for a signature longer than sigHolderLen it returns
\* 0 and writes nothing, on a failure of Cred, of the key type or of
\* signing it returns 0 and writes nothing, and a signature it does deliver
\* fits the buffer
C23_SignStaysInsideBuffer ==
    libCall.fn \in {"Sign", "SignForPython"} =>
        /\ Len(libRet.buf) = (IF libCall.given THEN libCall.len ELSE 0)
        /\ (libCall.ok /\ libCall.len < Len(libCall.data)) =>
              /\ ~libRet.panic
              /\ libRet.ret = 0
              /\ \A i \in 1..Len(libRet.buf) : libRet.buf[i] = Untouched
        /\ ~libCall.ok =>
              /\ ~libRet.panic
              /\ libRet.ret = 0
              /\ \A i \in 1..Len(libRet.buf) : libRet.buf[i] = Untouched
        /\ libRet.ret # 0 =>
              /\ libRet.ret = Len(libCall.data)
              /\ libRet.ret <= libCall.len
              /\ SubSeq(libRet.buf, 1, libRet.ret) = libCall.data

-----------------------------------------------------------------------------
(* Properties of the ECP proxy *)

\* the response is an error of the proxy itself with this status: it has
\* the X-Goog-EcpProxy-Error header and a JSON body that carries the status
IsProxyError(resp, statusCode) ==
    /\ resp.status = statusCode
    /\ resp.ecpError = "true"
    /\ resp.contentType = "application/json"
    /\ resp.body.code = statusCode

OwnError(resp) ==
    \E statusCode \in {StatusBadRequest, StatusForbidden, StatusBadGateway} :
        IsProxyError(resp, statusCode)

\* C21: a response carries the X-Goog-EcpProxy-Error header and the JSON
\* error body exactly when the proxy itself produced the error (400, 403 or
\* 502); a response the backend gave, a 500 included, is relayed with the
\* backend's status and body and without that header
C21_ErrorHeaderOnlyFromProxy ==
    proxyReq # NoProxyRequest =>
        IF proxyRT.err = "nil"
        THEN /\ proxyResp.status = proxyRT.res.status
             /\ proxyResp.body = proxyRT.res.body
             /\ proxyResp.ecpError = ""
        ELSE OwnError(proxyResp)

\* C22: the request handed to the transport for an accepted request has
\* scheme https, URL host and Host equal to the value of the target host
\* header, the path and query of the request, and no target host header
C22_OutgoingRequestRewritten ==
    proxyOut # <<>> =>
        LET out == proxyOut[1]
            targetHost == HeaderGet(proxyReq.targetHost)
        IN  /\ out.scheme = "https"
            /\ out.urlHost = targetHost
            /\ out.host = targetHost
            /\ out.path = proxyReq.path
            /\ out.query = proxyReq.query
            /\ out.method = proxyReq.method
            /\ out.targetHost = <<>>

-----------------------------------------------------------------------------
(* Properties of the keychain Cred *)

\* the certificates of the keychain that could follow entry i - 1 of the
\* chain: not among the first i - 1 entries, subject equal to the issuer of
\* entry i - 1, key verifying its signature
ChainCandidates(i) ==
    {xc \in {allCerts[j] : j \in 1..Len(allCerts)} :
        /\ ~certIn(xc, SubSeq(certs, 1, i - 1))
        /\ xc.RawSubject = certs[i - 1].RawIssuer
        /\ CheckSignatureFrom(certs[i - 1], xc)}

\* the chain starts with the leaf, has no certificate twice, and every
\* further entry is a candidate for its place that no other candidate
\* outlives
ChainWellFormed ==
    /\ certs # <<>> => certs[1] = leaf
    /\ \A i, j \in 1..Len(certs) : i # j => certs[i] # certs[j]
    /\ \A i \in 2..Len(certs) :
          /\ certs[i] \in ChainCandidates(i)
          /\ \A xc \in ChainCandidates(i) : xc.NotAfter <= certs[i].NotAfter

\* C25: the chain the keychain Cred builds is well formed at every point of
\* the construction, and the construction ends, whatever finite list of
\* certificates the keychain holds, self-signed certificates and issuer
\* cycles included
C25_ChainWellFormedAndFinite ==
    /\ []ChainWellFormed
    /\ <>(leaf # NilCert /\ prev = NilCert)

\* the construction ended after it went round an issuer cycle: the leaf,
\* the later CA certificate, the root certificate the CA signed, and the
\* earlier CA certificate
C25_Witness ==
    /\ prev = NilCert
    /\ Len(certs) = 4
    /\ certs[1] = leaf
    /\ certs[2] = KeychainCert("ca", "root", "kCA", "kRoot", 2)
    /\ certs[3] = KeychainCert("root", "ca", "kRoot", "kCA", 2)
    /\ certs[4] = KeychainCert("ca", "root", "kCA", "kRoot", 1)

\* C26: however often Close of a keychain Key is called, by goroutines one
\* after another or at the same time or by the finalizer, the private-key
\* and the public-key reference are each released at most once, both were
\* released once when any call has returned, and every call returns nil
C26_CloseReleasesOnce ==
    /\ released.privateKeyRef <= 1
    /\ released.publicKeyRef <= 1
    /\ \A c \in KeychainClosers :
          /\ kcReturned[c] # <<>> =>
                released = [privateKeyRef |-> 1, publicKeyRef |-> 1]
          /\ \A i \in 1..Len(kcReturned[c]) : kcReturned[c][i] = "nil"

\* two goroutines were inside Close at the same time: g2 found done unset
\* and waits in doSlow, g1 has released both references and returned nil
C26_Witness ==
    /\ kcPc["g2"] = "doSlow"
    /\ kcPc["g1"] = "idle"
    /\ kcReturned["g1"] = <<"nil">>
    /\ onceDone
    /\ released = [privateKeyRef |-> 1, publicKeyRef |-> 1]

-----------------------------------------------------------------------------
(* Properties of runServer *)

\* ListenAndServe failed
ServerFailed == goErr \notin {"none", "http: Server closed"}

\* runServer never returns nil while the server accepts requests: nil is
\* returned only after a shutdown that left no listener and no connection;
\* the shutdown lasts no longer than ShutdownTimeout and its failure is
\* returned as an error
ShutdownIsGraceful ==
    /\ rsPc = "shutdown" => ctxDone /\ ~accepting /\ elapsed <= defaultShutdownTimeout
    /\ (rsPc = "returned" /\ rsRet = "nil") =>
          ctxDone /\ inShutdown /\ ~accepting /\ conns = 0
    /\ (rsPc = "returned" /\ rsRet = ErrShutdownFailed) =>
          ctxDone /\ inShutdown /\ ~accepting /\ elapsed = defaultShutdownTimeout
    /\ rsPc = "returned" => rsRet \in {"nil", ErrStartFailed, ErrShutdownFailed}

\* C27: runServer returns an error whenever the server failed to start,
\* without waiting for the cancellation; after the cancellation it shuts the
\* server down within ShutdownTimeout and returns nil for a clean shutdown
\* and an error for a failed one; it never returns nil while the server
\* accepts requests
C27_RunServerReturns ==
    /\ (rsPc = "returned" /\ ServerFailed) => rsRet = ErrStartFailed
    /\ (rsPc = "returned" /\ ~ctxDone) => rsRet = ErrStartFailed
    /\ ShutdownIsGraceful

\* C27, amended: runServer returns the error of a server that failed to
\* start when the context is not cancelled, and without the cancellation it
\* returns nothing else; when the context is cancelled as well, the select
\* may take either case, and runServer returns the start error, or shuts the
\* failed server down and returns nil or the shutdown error. The rest as
\* stated
C27_RunServerReturnsUnlessCancelled ==
    /\ (rsPc = "returned" /\ ~ctxDone) => ServerFailed /\ rsRet = ErrStartFailed
    /\ (rsPc = "returned" /\ rsRet = ErrStartFailed) => ServerFailed
    /\ (rsPc = "select" /\ ServerFailed) => errChan = <<ErrStartFailed>>
    /\ ShutdownIsGraceful

\* the server failed to start and runServer returned the error although
\* the context was never cancelled
C27_Witness ==
    /\ rsPc = "returned"
    /\ goErr = "listen: address already in use"
    /\ ~ctxDone
    /\ rsRet = ErrStartFailed

-----------------------------------------------------------------------------
(* Properties of the functions that obtain a Key *)

\* C29: getCertPem, Sign and GetKeyType of the shared library and the main
\* functions of the ECP proxy call Key.Close on every path on which their
\* Cred succeeded: whenever one of them has returned or ended the process,
\* Close was called on every Key that was obtained
C29_EveryKeyIsClosed ==
    /\ keysClosed = keysOpened
    /\ userLast.credOk => userLast.closed

-----------------------------------------------------------------------------
(* Properties of the signer's handlers *)

\* C30: whatever the interleaving of the requests of a connection, every
\* Encrypt, Decrypt and Sign request is processed with the hash of its own
\* arguments: the hash another request stored on the signer's Key is not
\* used
C30_RequestUsesOwnHash ==
    \A r \in RequestIds : hReq[r].pc = "done" => hReq[r].used = hReq[r].hash

-----------------------------------------------------------------------------
(* Properties of package utils *)

\* C24: every call of Fatalf and of Fatalln terminates the process with a
\* status other than 0, with logging enabled or not, and does not return
\* to its caller; with logging enabled the fatal line is the last one logged
C24_FatalAlwaysExits ==
    logLast.fn \in {"Fatalf", "Fatalln"} =>
        /\ ~logRuns
        /\ logExit # 0
        /\ ~logLast.returned
        /\ isEcpLogEnabled =>
              logOutput # <<>> /\ logOutput[Len(logOutput)][1] = "[FATAL]"

====
